---------------------------- MODULE Spec2Model ----------------------------
(***************************************************************************)
(* Nair8: bytecode generator (generator.rs) and stack VM (runtime.rs).     *)
(*                                                                         *)
(* The VM state is the Runtime struct (variables, variable_types) plus     *)
(* the locals of execute_bytecode (bytecode, stack, ip) and its result.    *)
(* Instruction indices are 0-based as in the source: the instruction at    *)
(* index i is bytecode[i + 1].                                             *)
(*                                                                         *)
(* Value::Number(f64) is modelled as an extended rational num/den in       *)
(* lowest terms (den > 0), with den = 0 for the non-finite values          *)
(* (1/0 = inf, -1/0 = -inf, 0/0 = NaN).  Rounding and negative zero are    *)
(* not modelled.                                                           *)
(***************************************************************************)
EXTENDS Integers, Sequences, FiniteSets, TLC

\* ------------------------------------------------------------------ bounds
MaxSteps == 12     \* instructions executed by one execute_bytecode call
MaxUnits == 2      \* units run against one Runtime

\* ------------------------------------------------------------------ values
NumberV(n, d) == [tag |-> "Number", num |-> n, den |-> d, s |-> "", b |-> FALSE]
StringV(t)    == [tag |-> "String", num |-> 0, den |-> 1, s |-> t, b |-> FALSE]
BooleanV(x)   == [tag |-> "Boolean", num |-> 0, den |-> 1, s |-> "", b |-> x]
NullV         == [tag |-> "Null", num |-> 0, den |-> 1, s |-> "", b |-> FALSE]
ObjectV(c)    == [tag |-> "Object", num |-> 0, den |-> 1, s |-> c, b |-> FALSE]

Abs(i) == IF i < 0 THEN -i ELSE i
Sign(i) == IF i < 0 THEN -1 ELSE IF i = 0 THEN 0 ELSE 1

RECURSIVE Gcd(_, _)
Gcd(a, b) == IF b = 0 THEN a ELSE Gcd(b, a % b)

\* num/den in lowest terms with den >= 0; den = 0 keeps only the sign
Norm(n, d) ==
    IF d = 0 THEN NumberV(Sign(n), 0)
    ELSE LET g == Gcd(Abs(n), Abs(d))
         IN  NumberV(Sign(d) * (n \div g), Abs(d) \div g)

Num(k) == NumberV(k, 1)
Finite(x) == x.den # 0
IsNaN(x) == x.den = 0 /\ x.num = 0
NaN == NumberV(0, 0)

\* f64 addition
AddN(x, y) ==
    IF Finite(x) /\ Finite(y) THEN Norm(x.num * y.den + y.num * x.den, x.den * y.den)
    ELSE IF IsNaN(x) \/ IsNaN(y) THEN NaN
    ELSE IF Finite(x) THEN y
    ELSE IF Finite(y) THEN x
    ELSE IF x.num = y.num THEN x ELSE NaN

NegN(x) == NumberV(-x.num, x.den)

\* f64 subtraction
SubN(x, y) == AddN(x, NegN(y))

\* f64 multiplication
MulN(x, y) ==
    IF Finite(x) /\ Finite(y) THEN Norm(x.num * y.num, x.den * y.den)
    ELSE IF IsNaN(x) \/ IsNaN(y) THEN NaN
    ELSE IF x.num = 0 \/ y.num = 0 THEN NaN
    ELSE NumberV(Sign(x.num) * Sign(y.num), 0)

\* f64 division
DivN(x, y) ==
    IF IsNaN(x) \/ IsNaN(y) THEN NaN
    ELSE IF Finite(x) /\ Finite(y) THEN Norm(x.num * y.den, x.den * y.num)
    ELSE IF Finite(x) THEN Num(0)
    ELSE IF Finite(y) THEN NumberV(x.num * (IF y.num < 0 THEN -1 ELSE 1), 0)
    ELSE NaN

\* mutant: every number counts as whole
FractIsZero_Always(x) == TRUE

\* f64::fract() == 0.0
FractIsZero(x) == x.den = 1

\* f64::floor()
FloorN(x) == IF Finite(x) THEN Num(x.num \div x.den) ELSE x

\* ------------------------------------------------------------ display forms
RECURSIVE Pow10(_)
Pow10(k) == IF k = 0 THEN 1 ELSE 10 * Pow10(k - 1)

RECURSIVE Digits(_, _)
\* the k low decimal digits of n, zero padded
Digits(n, k) == IF k = 0 THEN "" ELSE Digits(n \div 10, k - 1) \o ToString(n % 10)

\* Display of f64: integers print without a fraction, terminating decimals
\* print their digits; other fractions are written num/den here
DisplayNumber(x) ==
    IF x.den = 0 THEN (IF x.num > 0 THEN "inf" ELSE IF x.num < 0 THEN "-inf" ELSE "NaN")
    ELSE IF x.den = 1 THEN ToString(x.num)
    ELSE LET ks == {k \in 1..6 : Pow10(k) % x.den = 0}
         IN  IF ks = {} THEN ToString(x.num) \o "/" \o ToString(x.den)
             ELSE LET k == CHOOSE j \in ks : \A i \in ks : j <= i
                      scaled == (Abs(x.num) * Pow10(k)) \div x.den
                  IN  (IF x.num < 0 THEN "-" ELSE "")
                      \o ToString(scaled \div Pow10(k)) \o "." \o Digits(scaled % Pow10(k), k)

\* impl Display for Value
Display(v) ==
    CASE v.tag = "Number"  -> DisplayNumber(v)
      [] v.tag = "String"  -> v.s
      [] v.tag = "Boolean" -> (IF v.b THEN "true" ELSE "false")
      [] v.tag = "Null"    -> "null"
      [] v.tag = "Object"  -> "[object " \o v.s \o "]"

\* derive(Debug) for Value
DebugValue(v) ==
    CASE v.tag = "Number"  -> "Number(" \o DisplayNumber(v)
                                \o (IF v.den = 1 THEN ".0" ELSE "") \o ")"
      [] v.tag = "String"  -> "String(\"" \o v.s \o "\")"
      [] v.tag = "Boolean" -> "Boolean(" \o (IF v.b THEN "true" ELSE "false") \o ")"
      [] v.tag = "Null"    -> "Null"
      [] v.tag = "Object"  -> "Object(\"" \o v.s \o "\")"

\* ------------------------------------------------------------ instructions
Instr(o, nm, k, val) == [op |-> o, name |-> nm, n |-> k, v |-> val]

Push(val)        == Instr("Push", "", 0, val)
Pop              == Instr("Pop", "", 0, NullV)
Duplicate        == Instr("Duplicate", "", 0, NullV)
LoadVar(nm)      == Instr("LoadVar", nm, 0, NullV)
StoreVar(nm)     == Instr("StoreVar", nm, 0, NullV)
Add              == Instr("Add", "", 0, NullV)
Subtract         == Instr("Subtract", "", 0, NullV)
Multiply         == Instr("Multiply", "", 0, NullV)
Divide           == Instr("Divide", "", 0, NullV)
Jump(t)          == Instr("Jump", "", t, NullV)
JumpIfFalse(t)   == Instr("JumpIfFalse", "", t, NullV)
Call(nm, argc)   == Instr("Call", nm, argc, NullV)
Return           == Instr("Return", "", 0, NullV)
NewObject(nm)    == Instr("NewObject", nm, 0, NullV)
GetProperty(nm)  == Instr("GetProperty", nm, 0, NullV)
SetProperty(nm)  == Instr("SetProperty", nm, 0, NullV)
CheckType(nm)    == Instr("CheckType", nm, 0, NullV)
Cast(nm)         == Instr("Cast", nm, 0, NullV)
Concat           == Instr("Concat", "", 0, NullV)
Interpolate(k)   == Instr("Interpolate", "", k, NullV)
CheckAssignmentType == Instr("CheckAssignmentType", "", 0, NullV)
ConvertToString  == Instr("ConvertToString", "", 0, NullV)
Show             == Instr("Show", "", 0, NullV)

\* ---------------------------------------------------------------- AST nodes
NoneNode == [kind |-> "None"]
TypeAnnotation(t) == [kind |-> "TypeAnnotation", name |-> t]
MappingTypeOf(vt) ==
    [kind |-> "MappingType", key_type |-> TypeAnnotation("Text"), value_type |-> vt]
MappingType == MappingTypeOf(TypeAnnotation("Any"))
ListType(t) == [kind |-> "ListType", element_type |-> t]
PromiseType(t) == [kind |-> "PromiseType", value_type |-> t]
MappingLiteral(es) == [kind |-> "MappingLiteral", entries |-> es]
VariableDecl(nm, ty, init) ==
    [kind |-> "VariableDecl", name |-> nm, type_annotation |-> ty, initializer |-> init]
Assignment(nm, val) == [kind |-> "Assignment", name |-> nm, value |-> val]
Binary(l, o, r) == [kind |-> "Binary", left |-> l, operator |-> o, right |-> r]
NodeCall(c, as) == [kind |-> "Call", callee |-> c, args |-> as]
ShowStmt(e) == [kind |-> "ShowStmt", expr |-> e]
Block(stmts) == [kind |-> "Block", statements |-> stmts]
WhenStmt(c, t, e) ==
    [kind |-> "WhenStmt", condition |-> c, then_branch |-> t, else_branch |-> e]
LoopStmt(c, b) == [kind |-> "LoopStmt", condition |-> c, body |-> b]
Get(o, nm) == [kind |-> "Get", object |-> o, name |-> nm]
New(cn, as) == [kind |-> "New", class_name |-> cn, args |-> as]
StringInterpolation(ps) == [kind |-> "StringInterpolation", parts |-> ps]
Literal(val) == [kind |-> "Literal", value |-> val]
Variable(nm) == [kind |-> "Variable", name |-> nm]
AwaitExpr(val) == [kind |-> "AwaitExpr", value |-> val]
ExpressionStmt(e) == [kind |-> "ExpressionStmt", expr |-> e]

\* ------------------------------------------------------ BytecodeGenerator
\* generator state: instructions, the symbol table `variables`, and the
\* Result of the walk so far (ok = FALSE carries the Err string)
NewGenerator == [ok |-> TRUE, err |-> "", instructions |-> <<>>, variables |-> <<>>]

emit(g, opcode) == [g EXCEPT !.instructions = Append(@, opcode)]

GenErr(g, msg) == [g EXCEPT !.ok = FALSE, !.err = msg]

\* mutant: the JumpIfFalse keeps its placeholder
PatchJumpIfFalse_Skipped(g, pos, t) == g

\* `if let OpCode::JumpIfFalse(ref mut addr) = self.instructions[pos] { *addr = t }`
PatchJumpIfFalse(g, pos, t) ==
    IF g.instructions[pos + 1].op = "JumpIfFalse"
    THEN [g EXCEPT !.instructions[pos + 1].n = t] ELSE g

\* mutant: the Jump keeps its placeholder
PatchJump_Skipped(g, pos, t) == g

\* `if let OpCode::Jump(ref mut addr) = self.instructions[pos] { *addr = t }`
PatchJump(g, pos, t) ==
    IF g.instructions[pos + 1].op = "Jump"
    THEN [g EXCEPT !.instructions[pos + 1].n = t] ELSE g

contains_key(f, k) == k \in DOMAIN f

insert(f, k, val) == [x \in (DOMAIN f) \cup {k} |-> IF x = k THEN val ELSE f[x]]

BinaryOpcode(operator) ==
    CASE operator = "Plus"     -> Add
      [] operator = "Minus"    -> Subtract
      [] operator = "Multiply" -> Multiply
      [] operator = "Divide"   -> Divide
      [] OTHER                 -> NoneNode

\* mutant: a declaration's annotation emits nothing
CheckAnnotation_Never(g, type_annotation) == g

\* VariableDecl: `if let Some(type_node) = type_annotation {
\*     if let Node::TypeAnnotation(type_name) = &**type_node { emit(CheckType) } }`
CheckAnnotation(g, type_annotation) ==
    IF type_annotation.kind = "TypeAnnotation"
    THEN emit(g, CheckType(type_annotation.name))
    ELSE g

\* mutant: the symbol table is never filled
TrackVariable_Never(g, name) == g

\* Assignment: `if !self.variables.contains_key(name) {
\*     self.variables.insert(name.clone(), self.variables.len()); }`
TrackVariable(g, name) ==
    IF ~contains_key(g.variables, name)
    THEN [g EXCEPT !.variables = insert(@, name, Cardinality(DOMAIN @))]
    ELSE g

RECURSIVE generate_node(_, _)
RECURSIVE generate_nodes(_, _)
RECURSIVE generate_string_interpolation(_, _, _)

\* mutant: a node that fails to compile is left out and the walk goes on
generate_nodes_BestEffort(g, nodes) ==
    IF nodes = <<>> THEN g
    ELSE LET g1 == generate_node(g, Head(nodes))
         IN  generate_nodes(IF g1.ok THEN g1 ELSE g, Tail(nodes))

\* the `for x in xs { self.generate_node(x)?; }` loops
generate_nodes(g, nodes) ==
    IF nodes = <<>> THEN g
    ELSE LET g1 == generate_node(g, Head(nodes))
         IN  IF g1.ok THEN generate_nodes(g1, Tail(nodes)) ELSE g1

\* parts: the parts still to emit; total: parts.len()
generate_string_interpolation(g, parts, total) ==
    IF parts = <<>> THEN g
    ELSE LET part == Head(parts)
             g1 == IF part.kind = "Literal" /\ part.value.tag = "String"
                     THEN emit(g, Push(StringV(part.value.s)))
                   ELSE IF part.kind = "Variable"
                     THEN emit(emit(g, LoadVar(part.name)), ConvertToString)
                   ELSE generate_node(g, part)
         IN  IF ~g1.ok THEN g1
             ELSE generate_string_interpolation(
                      IF total > 1 THEN emit(g1, Concat) ELSE g1, Tail(parts), total)

generate_node(g, node) ==
    CASE node.kind = "VariableDecl" ->
           LET g1 == IF node.initializer.kind # "None"
                       THEN generate_node(g, node.initializer)
                       ELSE emit(g, Push(NullV))
           IN  IF ~g1.ok THEN g1
               ELSE emit(CheckAnnotation(g1, node.type_annotation), StoreVar(node.name))
      [] node.kind = "Assignment" ->
           LET g1 == generate_node(g, node.value)
           IN  IF ~g1.ok THEN g1
               ELSE LET g2 == IF contains_key(g1.variables, node.name)
                                THEN emit(emit(g1, LoadVar(node.name)), CheckAssignmentType)
                                ELSE g1
                    IN  TrackVariable(emit(g2, StoreVar(node.name)), node.name)
      [] node.kind = "Binary" ->
           LET g1 == generate_node(g, node.left)
           IN  IF ~g1.ok THEN g1
               ELSE LET g2 == generate_node(g1, node.right)
                    IN  IF ~g2.ok THEN g2
                        ELSE IF node.operator \in {"Plus", "Minus", "Multiply", "Divide"}
                          THEN emit(g2, BinaryOpcode(node.operator))
                          ELSE GenErr(g2, "Unsupported binary operator")
      [] node.kind = "Call" ->
           LET g1 == generate_nodes(g, node.args)
           IN  IF ~g1.ok THEN g1
               ELSE IF node.callee.kind = "Variable"
                 THEN emit(g1, Call(node.callee.name, Len(node.args)))
                 ELSE GenErr(g1, "Only direct function calls are supported")
      [] node.kind = "ShowStmt" ->
           LET g1 == generate_node(g, node.expr)
           IN  IF ~g1.ok THEN g1 ELSE emit(g1, Show)
      [] node.kind = "Block" -> generate_nodes(g, node.statements)
      [] node.kind = "WhenStmt" ->
           LET g1 == generate_node(g, node.condition)
           IN  IF ~g1.ok THEN g1
               ELSE LET jump_if_false_pos == Len(g1.instructions)
                        g2 == generate_node(emit(g1, JumpIfFalse(0)), node.then_branch)
                    IN  IF ~g2.ok THEN g2
                        ELSE IF node.else_branch.kind # "None"
                          THEN LET jump_pos == Len(g2.instructions)
                                   g3 == emit(g2, Jump(0))
                                   else_start == Len(g3.instructions)
                                   g4 == generate_node(
                                             PatchJumpIfFalse(g3, jump_if_false_pos, else_start),
                                             node.else_branch)
                               IN  IF ~g4.ok THEN g4
                                   ELSE PatchJump(g4, jump_pos, Len(g4.instructions))
                          ELSE PatchJumpIfFalse(g2, jump_if_false_pos, Len(g2.instructions))
      [] node.kind = "LoopStmt" ->
           LET loop_start == Len(g.instructions)
               g1 == generate_node(g, node.condition)
           IN  IF ~g1.ok THEN g1
               ELSE LET jump_if_false_pos == Len(g1.instructions)
                        g2 == generate_node(emit(g1, JumpIfFalse(0)), node.body)
                    IN  IF ~g2.ok THEN g2
                        ELSE LET g3 == emit(g2, Jump(loop_start))
                             IN  PatchJumpIfFalse(g3, jump_if_false_pos, Len(g3.instructions))
      [] node.kind = "Get" ->
           LET g1 == generate_node(g, node.object)
           IN  IF ~g1.ok THEN g1 ELSE emit(g1, GetProperty(node.name))
      [] node.kind = "New" ->
           LET g1 == generate_nodes(g, node.args)
           IN  IF ~g1.ok THEN g1 ELSE emit(g1, NewObject(node.class_name))
      [] node.kind = "StringInterpolation" ->
           LET g1 == generate_string_interpolation(g, node.parts, Len(node.parts))
           IN  IF ~g1.ok THEN g1 ELSE emit(g1, Interpolate(Len(node.parts)))
      [] node.kind = "Literal" -> emit(g, Push(node.value))
      [] node.kind = "Variable" -> emit(g, LoadVar(node.name))
      [] OTHER -> GenErr(g, "Unsupported node type: " \o node.kind)

\* BytecodeGenerator::new().generate(nodes)
generate(nodes) == generate_nodes(NewGenerator, nodes)

\* ------------------------------------------------------------- Tokenizer
\* The source text is a sequence of lexemes, the maximal runs scan_token
\* consumes in one call after skip_whitespace: a word (letters, digits, _),
\* a number, a quoted string without braces, or a single other character.
Word(t)   == [kind |-> "word", text |-> t, v |-> NullV]
Numeral(x) == [kind |-> "number", text |-> "", v |-> x]
Quoted(t) == [kind |-> "string", text |-> t, v |-> NullV]
Char(c)   == [kind |-> "char", text |-> c, v |-> NullV]

Token(ty, t, x) == [type |-> ty, text |-> t, v |-> x]

\* create_identifier_token: the keyword table scan_token uses
create_identifier_token(text) ==
    CASE text = "is"        -> "Is"
      [] text = "as"        -> "As"
      [] text = "Mapping"   -> "TypeMapping"
      [] text = "Text"      -> "TypeText"
      [] text = "includes"  -> "Includes"
      [] text = "Object"    -> "Object"
      [] text = "Task"      -> "Task"
      [] text = "build"     -> "Build"
      [] text = "defaults"  -> "Defaults"
      [] text = "of"        -> "Of"
      [] text = "to"        -> "To"
      [] text = "show"      -> "Show"
      [] text = "raise"     -> "Raise"
      [] text = "await"     -> "Await"
      [] text = "at"        -> "At"
      [] text = "and"       -> "And"
      [] text = "each"      -> "Each"
      [] text = "becomes"   -> "Becomes"
      [] text = "my"        -> "My"
      [] text = "about"     -> "About"
      [] text = "me"        -> "Me"
      [] text = "loop"      -> "Loop"
      [] text = "while"     -> "While"
      [] text = "Emit"      -> "Emit"
      [] text = "match"     -> "Match"
      [] text = "output"    -> "Output"
      [] text = "returns"   -> "Returns"
      [] text = "requires"  -> "Requires"
      [] text = "returning" -> "Returning"
      [] text = "new"       -> "New"
      [] text = "with"      -> "With"
      [] text = "using"     -> "Using"
      [] OTHER              -> "Identifier"

\* scan_token's arms for single characters: <<>> for `Unexpected character`
CharToken(c) ==
    CASE c = "{" -> << "LeftBrace" >>
      [] c = "}" -> << "RightBrace" >>
      [] c = "(" -> << "OpenParen" >>
      [] c = ")" -> << "CloseParen" >>
      [] c = "[" -> << "OpenBracket" >>
      [] c = "]" -> << "CloseBracket" >>
      [] c = ":" -> << "Colon" >>
      [] c = "," -> << "Comma" >>
      [] c = "." -> << "Dot" >>
      [] c = "+" -> << "Plus" >>
      [] c = "-" -> << "Minus" >>
      [] c = "*" -> << "Multiply" >>
      [] c = "/" -> << "Divide" >>
      [] c = ">" -> << "GreaterThan" >>
      [] OTHER   -> <<>>

\* scan_token: << token >> for Ok(token), <<>> for Err
scan_token(lx) ==
    CASE lx.kind = "word"   -> << Token(create_identifier_token(lx.text), lx.text, NullV) >>
      [] lx.kind = "number" -> << Token("Number", "", lx.v) >>
      [] lx.kind = "string" -> << Token("String", lx.text, NullV) >>
      [] lx.kind = "char"   ->
           IF CharToken(lx.text) = <<>> THEN <<>>
           ELSE << Token(CharToken(lx.text)[1], lx.text, NullV) >>

RECURSIVE ScanAll(_)
\* tokenize's loop: `if let Ok(token) = self.scan_token() { tokens.push(token) }`
ScanAll(source) ==
    IF source = <<>> THEN <<>>
    ELSE scan_token(Head(source)) \o ScanAll(Tail(source))

\* tokenize: the scanned tokens, then EOF
tokenize(source) == Append(ScanAll(source), Token("EOF", "", NullV))

\* ----------------------------------------------------------------- Parser
\* A parsing function takes the token vector and `current` and gives the
\* Result with the `current` it leaves: ok = FALSE carries the Err string.
POk(n, c)    == [ok |-> TRUE, err |-> "", node |-> n, current |-> c]
PErr(msg, c) == [ok |-> FALSE, err |-> msg, node |-> NoneNode, current |-> c]

\* the outcome of a recursion that never returns
StackOverflow == "stack overflow"

peek(tokens, current) == tokens[current + 1]
is_at_end(tokens, current) == peek(tokens, current).type = "EOF"
advance(tokens, current) == IF is_at_end(tokens, current) THEN current ELSE current + 1
check(tokens, current, ty) ==
    ~is_at_end(tokens, current) /\ peek(tokens, current).type = ty

\* the annotation named by a token that stands for a type alone
SimpleTypeName(ty) ==
    CASE ty = "TypeText"    -> << "Text" >>
      [] ty = "TypeWhole"   -> << "Whole" >>
      [] ty = "TypeDecimal" -> << "Decimal" >>
      [] ty = "TypeLogic"   -> << "Logic" >>
      [] ty = "TypeNothing" -> << "Nothing" >>
      [] ty = "TypeAny"     -> << "Any" >>
      [] ty = "TypeNumber"  -> << "Number" >>
      [] ty = "TypeError"   -> << "Error" >>
      [] OTHER              -> <<>>

\* F applied to the value of e: e is evaluated once, however often F uses it
Bind(e, F(_)) == CHOOSE out \in {F(x) : x \in {e}} : TRUE

RECURSIVE type_annotation(_, _)
type_annotation(tokens, current) ==
    LET ty == peek(tokens, current).type
        c1 == advance(tokens, current)
        Mapping(r) == IF r.ok THEN POk(MappingTypeOf(r.node), r.current) ELSE r
        Bracketed(r) ==
            IF ~r.ok THEN r
            ELSE IF ~check(tokens, r.current, "CloseBracket")
              THEN PErr("Expected ']' after type parameter", r.current)
            ELSE POk(IF ty = "TypeList" THEN ListType(r.node) ELSE PromiseType(r.node),
                     advance(tokens, r.current))
    IN  CASE ty = "TypeMapping" ->
               IF check(tokens, c1, "Of")
               THEN Bind(type_annotation(tokens, advance(tokens, c1)), Mapping)
               ELSE POk(MappingType, c1)
          [] ty \in {"TypeList", "TypePromise"} ->
               IF check(tokens, c1, "OpenBracket")
               THEN Bind(type_annotation(tokens, advance(tokens, c1)), Bracketed)
               ELSE POk(TypeAnnotation(IF ty = "TypeList" THEN "List" ELSE "Promise"), c1)
          [] SimpleTypeName(ty) # <<>> -> POk(TypeAnnotation(SimpleTypeName(ty)[1]), c1)
          [] OTHER -> PErr("Expected type name", current)

\* string_literal on a String token: the text of the tokens scanned here
\* holds no brace, so the result is the plain literal
string_literal(tokens, current) ==
    POk(Literal(StringV(peek(tokens, current).text)), advance(tokens, current))

RECURSIVE expression(_, _)
RECURSIVE ArgumentLoop(_, _, _)

\* argument_list: the node of the result is the vector of arguments
argument_list(tokens, current) ==
    IF ~check(tokens, current, "CloseParen") /\ ~is_at_end(tokens, current)
    THEN ArgumentLoop(tokens, current, <<>>)
    ELSE POk(<<>>, current)

\* new_expression, entered with `current` where expression left it
new_expression(tokens, current) ==
    IF peek(tokens, current).type # "Identifier"
    THEN PErr("Expected class name after 'new'", current)
    ELSE LET class_name == peek(tokens, current).text
             c1 == advance(tokens, current)
             WithArgs(r) == IF r.ok THEN POk(New(class_name, r.node), r.current) ELSE r
         IN  IF check(tokens, c1, "With")
             THEN Bind(argument_list(tokens, advance(tokens, c1)), WithArgs)
             ELSE POk(New(class_name, <<>>), c1)

\* argument_list's `loop`, args being the arguments pushed so far
ArgumentLoop(tokens, current, args) ==
    LET Pushed(r) ==
            IF ~r.ok THEN r
            ELSE IF check(tokens, r.current, "Comma")
              THEN ArgumentLoop(tokens, advance(tokens, r.current), Append(args, r.node))
            ELSE POk(Append(args, r.node), r.current)
    IN  Bind(expression(tokens, current), Pushed)

expression(tokens, current) ==
    LET ty == peek(tokens, current).type
        c1 == advance(tokens, current)
        Bracketed(r) ==
            IF ~r.ok THEN r
            ELSE IF ~check(tokens, r.current, "CloseBracket")
              THEN PErr("Expected ']' after type parameter", r.current)
            ELSE POk(IF ty = "TypeList" THEN ListType(r.node) ELSE PromiseType(r.node),
                     advance(tokens, r.current))
    IN  CASE ty = "Identifier" -> POk(Variable(peek(tokens, current).text), c1)
          [] ty = "String"     -> string_literal(tokens, current)
          [] ty \in {"Number", "Boolean"} -> POk(Literal(peek(tokens, current).v), c1)
          [] ty = "Null"       -> POk(Literal(NullV), c1)
          [] ty = "New"        -> new_expression(tokens, current)
          \* expression() calls itself on the same token, without end
          [] ty = "Await"      -> PErr(StackOverflow, current)
          \* the loop sees the opening Quote and runs no iteration
          [] ty = "Quote"      -> POk(StringInterpolation(<<>>), c1)
          \* consume_identifier finds the Mapping token itself
          [] ty = "TypeMapping" -> PErr("Expected parameter name", current)
          [] ty \in {"TypeList", "TypePromise"} ->
               Bind(type_annotation(tokens, c1), Bracketed)
          [] OTHER -> PErr("Expected expression", current)

RECURSIVE SkipNewLines(_, _)
\* `while self.peek().token_type == TokenType::NewLine { self.advance(); }`
SkipNewLines(tokens, current) ==
    IF peek(tokens, current).type = "NewLine"
    THEN SkipNewLines(tokens, advance(tokens, current))
    ELSE current

RECURSIVE MappingLoop(_, _, _)
\* mapping_initializer's `loop`, entries being the entries pushed so far;
\* an entry is (param_name, param_type, value)
MappingLoop(tokens, current, entries) ==
    IF peek(tokens, current).type # "Identifier"
    THEN PErr("Expected parameter name", current)
    ELSE LET param_name == peek(tokens, current).text
             c1 == advance(tokens, current)
             typed == check(tokens, c1, "As")
             Valued(t) ==
                 LET Pushed(r) ==
                         IF ~r.ok THEN r
                         ELSE IF check(tokens, r.current, "Comma")
                           THEN MappingLoop(tokens,
                                    SkipNewLines(tokens, advance(tokens, r.current)),
                                    Append(entries, << param_name, t.node, r.node >>))
                         ELSE POk(MappingLiteral(
                                      Append(entries, << param_name, t.node, r.node >>)),
                                  r.current)
                 IN  IF ~t.ok THEN t
                     ELSE IF ~check(tokens, t.current, "Is")
                       THEN PErr("Expected 'is' after type", t.current)
                     ELSE Bind(expression(tokens, advance(tokens, t.current)), Pushed)
         IN  IF ~typed /\ ~check(tokens, c1, "Is")
             THEN PErr("Expected 'as' or 'is' after parameter name", c1)
             ELSE Bind(IF typed THEN type_annotation(tokens, advance(tokens, c1))
                       ELSE POk(NoneNode, c1),
                       Valued)

mapping_initializer(tokens, current) == MappingLoop(tokens, current, <<>>)

declaration(tokens, current) ==
    IF peek(tokens, current).type # "Identifier"
    THEN PErr("Expected identifier", current)
    ELSE LET name == peek(tokens, current).text
             c1 == advance(tokens, current)
             \* `type_annotation: None`: the annotation parsed is not kept
             Untyped(r) ==
                 IF ~r.ok THEN r ELSE POk(VariableDecl(name, NoneNode, r.node), r.current)
             Annotated(t) ==
                 LET Mapped(m) ==
                         IF ~m.ok THEN m
                         ELSE POk(VariableDecl(name, t.node, m.node), m.current)
                 IN  IF ~t.ok THEN t
                     ELSE IF t.node.kind = "MappingType"
                       THEN IF ~check(tokens, t.current, "Includes")
                            THEN PErr("Expected 'includes' after mapping type", t.current)
                            ELSE Bind(mapping_initializer(tokens,
                                          advance(tokens, t.current)), Mapped)
                     ELSE IF check(tokens, t.current, "Is")
                       THEN Bind(expression(tokens, advance(tokens, t.current)), Untyped)
                     ELSE PErr("Expected 'as' or 'is' after identifier", t.current)
         IN  IF check(tokens, c1, "As")
             THEN Bind(type_annotation(tokens, advance(tokens, c1)), Annotated)
             ELSE IF check(tokens, c1, "Is")
               THEN Bind(expression(tokens, advance(tokens, c1)), Untyped)
             ELSE PErr("Expected 'as' or 'is' after identifier", c1)

RECURSIVE ParseLoop(_, _, _)
\* parse's `while !self.is_at_end() { statements.push(self.declaration()?) }`
ParseLoop(tokens, current, statements) ==
    LET Pushed(d) ==
            IF ~d.ok THEN d
            ELSE ParseLoop(tokens, d.current, Append(statements, d.node))
    IN  IF is_at_end(tokens, current) THEN POk(statements, current)
        ELSE Bind(declaration(tokens, current), Pushed)

\* Parser::new(tokens).parse(): the node of the result is the vector of statements
parse(tokens) ==
    LET FromStart(tk) == ParseLoop(tk, 0, <<>>)
    IN  Bind(tokens, FromStart)

\* --------------------------------------------------------------- Analyzer
\* A Type is written by its Debug name; every Map type built here is
\* Map { key: Text, value: Any }, written "Map", because current_var_type
\* never holds a Map: type_from_annotation has no arm that returns one.
AOk(t, vs)    == [ok |-> TRUE, err |-> "", type |-> t, variables |-> vs]
AErr(msg, vs) == [ok |-> FALSE, err |-> msg, type |-> "Any", variables |-> vs]

\* type_from_annotation: <<type>>, or <<>> with the Err in TypeFromAnnotationErr
type_from_annotation(node) ==
    IF node.kind = "TypeAnnotation"
       /\ node.name \in {"Whole", "Decimal", "Text", "Truth", "Void", "Error", "Object"}
    THEN << node.name >> ELSE <<>>

TypeFromAnnotationErr(node) ==
    IF node.kind = "TypeAnnotation" THEN "Unknown type: " \o node.name
    ELSE "Invalid type annotation"

\* check_type_compatibility returns Ok
check_type_compatibility(expected, actual) == expected = actual \/ expected = "Any"

\* the type check_node gives a literal
LiteralType(value) ==
    CASE value.tag = "Number"  -> "Whole"
      [] value.tag = "String"  -> "Text"
      [] value.tag = "Boolean" -> "Truth"
      [] value.tag = "Null"    -> "Void"
      [] value.tag = "Object"  -> "Object"

\* the arithmetic arm of check_node(Binary): <<type>>, <<>> for Err
BinaryType(left_type, operator, right_type) ==
    IF left_type = "Whole" /\ right_type = "Whole" THEN << "Whole" >>
    ELSE IF left_type = "Decimal" \/ right_type = "Decimal" THEN << "Decimal" >>
    ELSE IF left_type = "Text" /\ right_type = "Text" /\ operator = "Plus" THEN << "Text" >>
    ELSE <<>>

RECURSIVE check_node(_, _)
RECURSIVE CheckParts(_, _)
RECURSIVE CheckEntries(_, _)

\* check_node(StringInterpolation): the loop over the parts
CheckParts(vs, parts) ==
    IF parts = <<>> THEN AOk("Text", vs)
    ELSE LET r == check_node(vs, Head(parts))
         IN  IF ~r.ok THEN r
             ELSE IF r.type # "Text"
               THEN AErr("String interpolation parts must be convertible to text", r.variables)
             ELSE CheckParts(r.variables, Tail(parts))

\* check_node(MappingLiteral): the loop over the entries; the type node of
\* an entry is checked by the catch-all arm, which gives Any
CheckEntries(vs, entries) ==
    IF entries = <<>> THEN AOk("Map", vs)
    ELSE LET r == check_node(vs, Head(entries)[3])
         IN  IF ~r.ok THEN r ELSE CheckEntries(r.variables, Tail(entries))

\* check_node on analyzer.variables = vs
check_node(vs, node) ==
    CASE node.kind = "VariableDecl" ->
           LET annotated == node.type_annotation.kind # "None"
               typ == IF annotated THEN type_from_annotation(node.type_annotation)
                      ELSE << "Any" >>
           IN  IF typ = <<>> THEN AErr(TypeFromAnnotationErr(node.type_annotation), vs)
               ELSE LET declared_type == typ[1]
                        init == IF node.initializer.kind # "None"
                                THEN check_node(vs, node.initializer)
                                ELSE AOk(declared_type, vs)
                    IN  IF ~init.ok THEN init
                        ELSE IF ~check_type_compatibility(declared_type, init.type)
                          THEN AErr("Type mismatch: expected " \o declared_type
                                       \o ", got " \o init.type, init.variables)
                        ELSE AOk(declared_type,
                                 insert(init.variables, node.name, declared_type))
      [] node.kind = "Literal" -> AOk(LiteralType(node.value), vs)
      [] node.kind = "Variable" ->
           AOk(IF contains_key(vs, node.name) THEN vs[node.name] ELSE "Any", vs)
      [] node.kind = "Binary" ->
           LET l == check_node(vs, node.left)
           IN  IF ~l.ok THEN l
               ELSE LET r == check_node(l.variables, node.right)
                    IN  IF ~r.ok THEN r
                        ELSE IF node.operator \notin {"Plus", "Minus", "Multiply", "Divide"}
                          THEN AErr("Unsupported operator", r.variables)
                        ELSE IF BinaryType(l.type, node.operator, r.type) = <<>>
                          THEN AErr("Invalid operand types for binary operation: "
                                       \o l.type \o " and " \o r.type, r.variables)
                        ELSE AOk(BinaryType(l.type, node.operator, r.type)[1], r.variables)
      [] node.kind = "ShowStmt" ->
           LET r == check_node(vs, node.expr)
           IN  IF ~r.ok THEN r ELSE AOk("Void", r.variables)
      [] node.kind = "StringInterpolation" -> CheckParts(vs, node.parts)
      [] node.kind = "Assignment" ->
           LET r == check_node(vs, node.value)
           IN  IF ~r.ok THEN r
               ELSE IF contains_key(r.variables, node.name)
                 THEN IF r.variables[node.name] # "Any" /\ r.variables[node.name] # r.type
                      THEN AErr("Type mismatch: cannot assign " \o r.type
                                   \o " to variable of type " \o r.variables[node.name],
                                r.variables)
                      ELSE r
               ELSE AOk(r.type, insert(r.variables, node.name, "Any"))
      [] node.kind = "MappingLiteral" -> CheckEntries(vs, node.entries)
      [] OTHER -> AOk("Any", vs)

RECURSIVE analyze(_, _)
\* analyze: `for node in nodes { self.check_node(node)?; }`
analyze(vs, nodes) ==
    IF nodes = <<>> THEN AOk("Void", vs)
    ELSE LET r == check_node(vs, Head(nodes))
         IN  IF ~r.ok THEN r ELSE analyze(r.variables, Tail(nodes))

\* process_input: the analyzer's variables, copied from the runtime's tables
SeedAnalyzer(vars_, types) ==
    [nm \in DOMAIN vars_ |->
        IF contains_key(types, nm)
           /\ types[nm] \in {"Whole", "Decimal", "Text", "Truth", "Void"}
        THEN types[nm] ELSE "Any"]

\* ------------------------------------------------------------------ inputs
\* AST units handed to the generator, and instruction sequences handed to
\* execute_bytecode directly
TextT == TypeAnnotation("Text")
WholeT == TypeAnnotation("Whole")
LitN(k) == Literal(Num(k))
LitS(t) == Literal(StringV(t))
LitB(x) == Literal(BooleanV(x))
Half == NumberV(1, 2)

Units == <<
    \* when/or with both branches, then a statement after it
    << WhenStmt(LitB(TRUE),
                Block(<<VariableDecl("x", NoneNode, LitN(1))>>),
                Block(<<VariableDecl("y", NoneNode, LitN(2))>>)),
       VariableDecl("y", NoneNode, LitS("z")) >>,
    \* the same with a false condition
    << WhenStmt(LitB(FALSE),
                Block(<<VariableDecl("x", NoneNode, LitN(1))>>),
                Block(<<VariableDecl("y", NoneNode, LitN(2))>>)),
       VariableDecl("y", NoneNode, LitS("z")) >>,
    \* when without an else branch
    << WhenStmt(LitB(FALSE), Block(<<VariableDecl("x", NoneNode, LitN(1))>>), NoneNode),
       VariableDecl("y", NoneNode, LitN(2)) >>,
    \* loop whose condition is a variable
    << LoopStmt(Variable("x"),
                Block(<<VariableDecl("x", NoneNode, LitB(FALSE))>>)) >>,
    \* loop whose condition is false on entry
    << LoopStmt(LitB(FALSE), Block(<<VariableDecl("x", NoneNode, LitN(1))>>)),
       VariableDecl("y", NoneNode, LitN(2)) >>,
    \* loop whose condition is always true
    << LoopStmt(LitB(TRUE), Block(<<VariableDecl("y", NoneNode, LitN(3))>>)) >>,
    \* x as Text is "hi"
    << VariableDecl("x", TextT, LitS("hi")) >>,
    \* x as Whole is 2 + 3; show x
    << VariableDecl("x", WholeT, Binary(LitN(2), "Plus", LitN(3))),
       ShowStmt(Variable("x")) >>,
    \* x as Whole (no initializer)
    << VariableDecl("x", WholeT, NoneNode) >>,
    \* x is true (untyped declaration)
    << VariableDecl("x", NoneNode, LitB(TRUE)) >>,
    \* two assignments to x in one unit, the second one checked
    << Assignment("x", LitS("yo")), Assignment("x", LitN(5)) >>,
    \* assignments of a whole and of a fractional number
    << Assignment("x", LitN(7)), Assignment("x", Literal(Half)) >>,
    \* "a{x}b{y}c"
    << ShowStmt(StringInterpolation(
           <<LitS("a"), Variable("x"), LitS("b"), Variable("y"), LitS("c")>>)) >>,
    \* x is 1, y is 2
    << VariableDecl("x", NoneNode, LitN(1)), VariableDecl("y", NoneNode, LitN(2)) >>,
    \* a single-part interpolation
    << VariableDecl("y", NoneNode, StringInterpolation(<<LitS("a")>>)) >>,
    \* calls
    << NodeCall(Variable("show"), <<LitN(1)>>),
       NodeCall(Variable("undefinedFn"), <<LitN(1), LitN(2)>>) >>,
    \* arithmetic
    << VariableDecl("y", NoneNode,
           Binary(Binary(LitN(1), "Divide", LitN(2)), "Multiply",
                  Binary(LitN(3), "Minus", LitN(1)))) >>,
    \* object construction and property access
    << VariableDecl("y", NoneNode, New("Person", <<LitN(1)>>)) >>,
    << ShowStmt(Get(Variable("x"), "name")) >>,
    \* an annotation that is not a TypeAnnotation node: no CheckType
    << VariableDecl("y", MappingType, LitN(1)) >>,
    \* unsupported nodes
    << ExpressionStmt(LitN(1)) >>,
    << VariableDecl("x", NoneNode, AwaitExpr(LitN(1))) >>,
    << VariableDecl("x", NoneNode, Binary(LitN(1), "GreaterThan", LitN(0))) >>,
    \* a conditional with an else branch nested in a then branch
    << WhenStmt(LitB(TRUE),
                Block(<<WhenStmt(LitB(FALSE),
                                 VariableDecl("x", NoneNode, LitN(1)),
                                 VariableDecl("x", NoneNode, LitN(2)))>>),
                Block(<<VariableDecl("y", NoneNode, LitN(3))>>)),
       VariableDecl("y", NoneNode, LitN(4)) >>,
    \* a conditional without else branch nested in an else branch
    << WhenStmt(LitB(FALSE),
                VariableDecl("x", NoneNode, LitN(1)),
                WhenStmt(LitB(TRUE), VariableDecl("y", NoneNode, LitN(2)), NoneNode)) >>,
    \* a conditional in a loop body, and a loop in a then branch
    << LoopStmt(LitB(FALSE),
                WhenStmt(Variable("x"), Assignment("y", LitN(1)), Assignment("y", LitN(2)))),
       WhenStmt(LitB(TRUE),
                LoopStmt(LitB(FALSE), VariableDecl("x", NoneNode, LitN(1))),
                NoneNode) >>,
    \* a loop nested in the body of a loop, after another statement
    << VariableDecl("y", NoneNode, LitN(0)),
       LoopStmt(Variable("x"),
                Block(<<LoopStmt(LitB(FALSE), VariableDecl("y", NoneNode, LitN(1))),
                        VariableDecl("x", NoneNode, LitB(FALSE))>>)) >>,
    \* an assignment in a branch that is not taken, then one to the same name
    << WhenStmt(LitB(FALSE), Assignment("x", LitN(1)), NoneNode),
       Assignment("x", LitN(2)) >>,
    \* a declaration, then assignments to that name and to another one
    << VariableDecl("x", NoneNode, LitN(1)), Assignment("x", LitN(2)),
       Assignment("y", LitN(3)), Assignment("x", LitS("a")) >>,
    \* an unsupported node after statements that compile
    << VariableDecl("x", NoneNode, LitN(1)), ShowStmt(AwaitExpr(Variable("x"))) >>
>>

RawPrograms == <<
    \* Interpolate on strings pushed in order, above another value
    << Push(Num(9)), Push(StringV("a")), Push(StringV("b")), Push(StringV("c")),
       Interpolate(3) >>,
    << Push(StringV("a")), Push(StringV("b")), Interpolate(2), StoreVar("y") >>,
    \* too-short stacks
    << Pop, Push(Num(1)) >>,
    << Push(StringV("a")), Interpolate(2) >>,
    << Cast("Whole"), Push(Num(1)) >>,
    << Call("show", 1) >>,
    << Push(Num(1)), Add >>,
    << Concat >>,
    << StoreVar("x") >>,
    << Push(Num(1)), CheckAssignmentType >>,
    << CheckAssignmentType >>,
    \* calls
    << Push(Num(1)), Push(Num(2)), Call("undefinedFn", 1) >>,
    << Push(Num(1)), Call("undefinedFn", 0) >>,
    << Push(Half), Call("show", 1), Pop >>,
    \* jumps
    << Jump(2), Push(Num(1)), Push(Num(2)), Push(Num(3)), StoreVar("y") >>,
    << Push(BooleanV(FALSE)), JumpIfFalse(3), Push(Num(1)), Push(Num(2)), Push(Num(3)),
       StoreVar("y") >>,
    << Push(Num(0)), JumpIfFalse(3), Return, Push(Num(2)) >>,
    << Push(Num(1)), Jump(2) >>,
    \* typed stores
    << Push(Num(4)), CheckType("Whole"), StoreVar("x"), Push(Half), StoreVar("x") >>,
    << Push(Half), CheckType("Whole"), StoreVar("x") >>,
    << Push(Num(3)), Push(Num(2)), Divide, StoreVar("x") >>,
    << Push(Num(6)), Push(Num(2)), Divide, StoreVar("x") >>,
    << Push(NullV), StoreVar("x") >>,
    << Push(Num(1)), Push(Num(0)), Divide, StoreVar("x") >>,
    << Push(Num(1)), Interpolate(0) >>,
    << Push(Num(5)), LoadVar("x"), CheckAssignmentType, StoreVar("x") >>,
    << Push(StringV("yo")), LoadVar("x"), CheckAssignmentType, StoreVar("x") >>,
    << Push(ObjectV("Person")), CheckType("Person"), StoreVar("y"),
       Push(BooleanV(TRUE)), StoreVar("y") >>,
    \* the remaining opcodes
    << Push(Half), Duplicate, Cast("Whole"), Cast("Text") >>,
    << Push(StringV("a")), Duplicate, Concat, SetProperty("p") >>,
    << Push(Num(2)), Push(Num(0)), Divide, Duplicate, Subtract, ConvertToString >>,
    << Push(Num(2)), Push(Half), Multiply, Push(StringV("a")), Subtract >>,
    \* CheckType with no, a distant, and only a preceding StoreVar
    << Push(Num(1)), CheckType("Text") >>,
    << Push(Num(1)), CheckType("Whole"), Push(Num(2)), StoreVar("y"), StoreVar("x") >>,
    << Push(Num(1)), StoreVar("x"), Push(Num(2)), CheckType("Text") >>,
    \* CheckAssignmentType on Null, and with no StoreVar after it
    << Push(NullV), LoadVar("x"), CheckAssignmentType, StoreVar("x") >>,
    << Push(Num(1)), Push(Num(2)), CheckAssignmentType >>,
    \* JumpIfFalse on an empty stack and on every kind of value but false
    << JumpIfFalse(2), Push(Num(1)), Push(Num(2)) >>,
    << Push(BooleanV(TRUE)), JumpIfFalse(3), Push(Num(1)), Push(Num(2)), Push(Num(3)) >>,
    << Push(NullV), JumpIfFalse(3), Push(Num(1)), Return, Push(Num(2)) >>,
    << Push(StringV("")), JumpIfFalse(3), Push(Num(1)), Return, Push(Num(2)) >>,
    << Push(ObjectV("Person")), JumpIfFalse(3), Push(Num(1)), Return, Push(Num(2)) >>,
    \* forward jumps to the last instruction, to the end and beyond the end
    << Jump(1), Push(Num(1)), Push(Num(2)) >>,
    << Jump(7), Push(Num(1)) >>,
    << Push(BooleanV(FALSE)), JumpIfFalse(3), Push(Num(1)) >>,
    << Push(BooleanV(FALSE)), JumpIfFalse(9), Push(Num(1)) >>,
    \* a jump to itself
    << Push(Num(1)), Jump(1), Push(Num(2)) >>
>>


\* source texts handed to process_input, lexeme by lexeme
Sources == <<
    \* x as Whole is 2 + 3
    << Word("x"), Word("as"), Word("Whole"), Word("is"), Numeral(Num(2)), Char("+"),
       Numeral(Num(3)) >>,
    \* show x
    << Word("show"), Word("x") >>,
    \* both lines as one file
    << Word("x"), Word("as"), Word("Whole"), Word("is"), Numeral(Num(2)), Char("+"),
       Numeral(Num(3)), Char("\n"), Word("show"), Word("x"), Char("\n") >>,
    \* x is 5
    << Word("x"), Word("is"), Numeral(Num(5)) >>,
    \* x as Text is "hi"
    << Word("x"), Word("as"), Word("Text"), Word("is"), Quoted("hi") >>,
    \* x as Text is 0.5
    << Word("x"), Word("as"), Word("Text"), Word("is"), Numeral(Half) >>,
    \* m as Mapping includes a is 1
    << Word("m"), Word("as"), Word("Mapping"), Word("includes"), Word("a"), Word("is"),
       Numeral(Num(1)) >>,
    \* m as Mapping of Text includes a as Text is "v", b is x
    << Word("m"), Word("as"), Word("Mapping"), Word("of"), Word("Text"),
       Word("includes"), Word("a"), Word("as"), Word("Text"), Word("is"), Quoted("v"),
       Char(","), Word("b"), Word("is"), Word("x") >>,
    \* y is x, then x is "a" in the same unit
    << Word("y"), Word("is"), Word("x"), Char("\n"), Word("x"), Word("is"), Quoted("a") >>,
    \* x is await y
    << Word("x"), Word("is"), Word("await"), Word("y") >>,
    \* x is new Person
    << Word("x"), Word("is"), Word("new"), Word("Person") >>,
    \* x as Text
    << Word("x"), Word("as"), Word("Text") >>,
    \* x is true
    << Word("x"), Word("is"), Word("true") >>,
    \* x = 1
    << Word("x"), Char("="), Numeral(Num(1)) >>,
    \* an empty file
    << >>
>>

\* ---------------------------------------------------------------- VM state
VARIABLES
    variables,        \* Runtime.variables: name -> Value
    variable_types,   \* Runtime.variable_types: name -> declared type name
    bytecode,         \* execute_bytecode: the instruction sequence
    stack,            \* execute_bytecode: the operand stack, top last
    ip,               \* execute_bytecode: index of the next instruction
    status,           \* "idle", "running", "ok" (Ok(())) or "err" (Err(error))
    error,            \* the Err string
    output,           \* lines printed by the current execute_bytecode call
    steps,            \* instructions executed by the current call
    units,            \* units run against this Runtime
    input,            \* which input the current call runs
    last,             \* ip, stack and tables just before the last instruction
    trace             \* indices of the instructions executed by the current call

vars == <<variables, variable_types, bytecode, stack, ip, status, error, output,
          steps, units, input, last, trace>>

NoLast == [ip |-> -1, stack |-> <<>>, variables |-> <<>>, variable_types |-> <<>>,
           output |-> <<>>]

\* Runtime::new()
Init ==
    /\ variables = <<>>
    /\ variable_types = <<>>
    /\ bytecode = <<>>
    /\ stack = <<>>
    /\ ip = 0
    /\ status = "idle"
    /\ error = ""
    /\ output = <<>>
    /\ steps = 0
    /\ units = 0
    /\ input = [kind |-> "none", idx |-> 0]
    /\ last = NoLast
    /\ trace = <<>>

\* ------------------------------------------------------------- VM helpers
Top(stk) == stk[Len(stk)]
Front(stk) == SubSeq(stk, 1, Len(stk) - 1)

\* the runtime classification of a value (StoreVar, CheckAssignmentType)
ValueType(value) ==
    CASE value.tag = "Number"  -> (IF FractIsZero(value) THEN "Whole" ELSE "Decimal")
      [] value.tag = "String"  -> "Text"
      [] value.tag = "Boolean" -> "Truth"
      [] value.tag = "Null"    -> "Void"
      [] value.tag = "Object"  -> value.s

TypeMismatch(value_type, declared_type) ==
    "Type mismatch: cannot assign " \o value_type
        \o " to variable of type " \o declared_type

\* mutant: the store skips the declared-type check
StoreVarMismatch_NoCheck(types, name, value) == FALSE

\* StoreVar: the declared-type check fails for this name and value
StoreVarMismatch(types, name, value) ==
    /\ contains_key(types, name)
    /\ value.tag # "Null"
    /\ types[name] # ValueType(value)

\* mutant: Null is exempt from the comparison, as it is in StoreVar
CheckAssignmentMismatch_NullExempt(types, name, new_value) ==
    /\ contains_key(types, name)
    /\ new_value.tag # "Null"
    /\ types[name] # ValueType(new_value)

\* CheckAssignmentType: the declared-type check fails for this name and value
CheckAssignmentMismatch(types, name, new_value) ==
    /\ contains_key(types, name)
    /\ types[name] # ValueType(new_value)

RECURSIVE get_next_var_name(_)
\* the name of the first StoreVar in upcoming_ops, <<>> for None
get_next_var_name(upcoming_ops) ==
    IF upcoming_ops = <<>> THEN <<>>
    ELSE IF Head(upcoming_ops).op = "StoreVar" THEN <<Head(upcoming_ops).name>>
    ELSE get_next_var_name(Tail(upcoming_ops))

\* mutant: the search starts at the first instruction of the sequence
Upcoming_FromStart(code, i) == code

\* &bytecode[ip+1..]
Upcoming(code, i) == SubSeq(code, i + 2, Len(code))

\* binary_op: <<>> for Err
binary_op(a, b, o) ==
    IF a.tag = "Number" /\ b.tag = "Number"
    THEN << CASE o = "Add"      -> AddN(a, b)
              [] o = "Subtract" -> SubN(a, b)
              [] o = "Multiply" -> MulN(a, b)
              [] o = "Divide"   -> DivN(a, b) >>
    ELSE <<>>

\* concat_values: <<>> for Err
concat_values(a, b) ==
    IF a.tag = "String" /\ b.tag = "String" THEN << StringV(a.s \o b.s) >> ELSE <<>>

\* mutant: the popped part is appended instead of prepended
InterpolateJoin_Reversed(part, result) == result \o part

\* Interpolate: one `result = part + &result`
InterpolateJoin(part, result) == part \o result

RECURSIVE InterpolateLoop(_, _, _)
\* Interpolate: `for _ in 0..part_count`, k iterations left
InterpolateLoop(stk, k, result) ==
    IF k = 0 THEN [stack |-> stk, result |-> result]
    ELSE IF stk = <<>> THEN InterpolateLoop(stk, k - 1, result)
    ELSE InterpolateLoop(Front(stk), k - 1,
             IF Top(stk).tag = "String" THEN InterpolateJoin(Top(stk).s, result)
             ELSE result)

Min(a, b) == IF a < b THEN a ELSE b

\* Call: the popped arguments, in their original order
CallArgs(stk, arg_count) == SubSeq(stk, Len(stk) - Min(arg_count, Len(stk)) + 1, Len(stk))

\* Call: the stack after the arguments were popped
CallRest(stk, arg_count) == SubSeq(stk, 1, Len(stk) - Min(arg_count, Len(stk)))

\* Cast: <<>> for the `_ => return Err` arm
CastValue(value, type_name) ==
    CASE value.tag = "Number" /\ type_name = "Whole"   -> << FloorN(value) >>
      [] value.tag = "Number" /\ type_name = "Decimal" -> << value >>
      [] value.tag = "String" /\ type_name = "Text"    -> << value >>
      [] value.tag = "Boolean" /\ type_name = "Truth"  -> << value >>
      [] OTHER -> <<>>

\* Jump / JumpIfFalse: the value assigned to ip by `ip = *target`
JumpTarget(target) == target

\* mutant: the increment after the match is missing
NextIp_Stays(i) == i

\* `ip += 1` after the match
NextIp(i) == i + 1

\* -------------------------------------------------------------- VM actions
cur == bytecode[ip + 1]

Running(o) ==
    /\ status = "running"
    /\ ip < Len(bytecode)
    /\ steps < MaxSteps
    /\ cur.op = o

\* bookkeeping common to every executed instruction
Executed ==
    /\ last' = [ip |-> ip, stack |-> stack, variables |-> variables,
                variable_types |-> variable_types, output |-> output]
    /\ trace' = Append(trace, ip)
    /\ steps' = steps + 1
    /\ UNCHANGED <<bytecode, units, input>>

\* the arm returned Ok(()): `ip += 1` on the ip the arm left
Continue(arm_ip) ==
    /\ ip' = NextIp(arm_ip)
    /\ status' = "running"
    /\ error' = ""

\* the arm returned Err(msg)
Raise(msg) ==
    /\ status' = "err"
    /\ error' = msg
    /\ UNCHANGED ip

\* mutant: every unit is run by a runtime with empty tables
RunUnit_FreshTables(i) ==
    /\ status \in {"idle", "ok"}
    /\ units < MaxUnits
    /\ LET g == generate(Units[i])
       IN  /\ bytecode' = (IF g.ok THEN g.instructions ELSE <<>>)
           /\ status' = (IF g.ok THEN "running" ELSE "err")
           /\ error' = g.err
    /\ input' = [kind |-> "unit", idx |-> i]
    /\ units' = units + 1
    /\ stack' = <<>>
    /\ ip' = 0
    /\ steps' = 0
    /\ output' = <<>>
    /\ last' = NoLast
    /\ trace' = <<>>
    /\ variables' = <<>>
    /\ variable_types' = <<>>

\* generate a unit with a fresh generator and start executing it
RunUnit(i) ==
    /\ status \in {"idle", "ok"}
    /\ units < MaxUnits
    /\ LET g == generate(Units[i])
       IN  /\ bytecode' = (IF g.ok THEN g.instructions ELSE <<>>)
           /\ status' = (IF g.ok THEN "running" ELSE "err")
           /\ error' = g.err
    /\ input' = [kind |-> "unit", idx |-> i]
    /\ units' = units + 1
    /\ stack' = <<>>
    /\ ip' = 0
    /\ steps' = 0
    /\ output' = <<>>
    /\ last' = NoLast
    /\ trace' = <<>>
    /\ UNCHANGED <<variables, variable_types>>

\* process_input: `tokenizer.tokenize()?` and `parser.parse()` on each source
ParsedSources == [i \in 1..Len(Sources) |-> parse(tokenize(Sources[i]))]

\* process_input on a source text: tokenize, parse, analyze with the
\* analyzer seeded from the runtime's tables, generate, execute
process_input(i) ==
    /\ status \in {"idle", "ok"}
    /\ units < MaxUnits
    /\ LET ast == ParsedSources[i]
           checked == analyze(SeedAnalyzer(variables, variable_types), ast.node)
           g == generate(ast.node)
       IN  IF ~ast.ok
           THEN /\ status' = (IF ast.err = StackOverflow THEN "abort" ELSE "err")
                /\ error' = ast.err
                /\ bytecode' = <<>>
           ELSE IF ~checked.ok
           THEN /\ status' = "err"
                /\ error' = checked.err
                /\ bytecode' = <<>>
           ELSE /\ bytecode' = (IF g.ok THEN g.instructions ELSE <<>>)
                /\ status' = (IF g.ok THEN "running" ELSE "err")
                /\ error' = g.err
    /\ input' = [kind |-> "source", idx |-> i]
    /\ units' = units + 1
    /\ stack' = <<>>
    /\ ip' = 0
    /\ steps' = 0
    /\ output' = <<>>
    /\ last' = NoLast
    /\ trace' = <<>>
    /\ UNCHANGED <<variables, variable_types>>

\* start executing an instruction sequence
RunBytecode(i) ==
    /\ status \in {"idle", "ok"}
    /\ units < MaxUnits
    /\ bytecode' = RawPrograms[i]
    /\ status' = "running"
    /\ error' = ""
    /\ input' = [kind |-> "raw", idx |-> i]
    /\ units' = units + 1
    /\ stack' = <<>>
    /\ ip' = 0
    /\ steps' = 0
    /\ output' = <<>>
    /\ last' = NoLast
    /\ trace' = <<>>
    /\ UNCHANGED <<variables, variable_types>>

\* `while ip < bytecode.len()` is false: Ok(())
Finish ==
    /\ status = "running"
    /\ ip >= Len(bytecode)
    /\ status' = "ok"
    /\ UNCHANGED <<variables, variable_types, bytecode, stack, ip, error, output,
                   steps, units, input, last, trace>>

\* mutant: Null is compared with the declared type like any other value
StepStoreVar_NullChecked ==
    /\ Running("StoreVar")
    /\ Executed
    /\ UNCHANGED <<variable_types, output>>
    /\ IF stack = <<>>
       THEN Raise("Stack underflow") /\ UNCHANGED <<stack, variables>>
       ELSE LET value == Top(stack)
            IN  /\ stack' = Front(stack)
                /\ IF CheckAssignmentMismatch(variable_types, cur.name, value)
                   THEN /\ Raise(TypeMismatch(ValueType(value), variable_types[cur.name]))
                        /\ UNCHANGED variables
                   ELSE /\ variables' = insert(variables, cur.name, value)
                        /\ Continue(ip)

StepStoreVar ==
    /\ Running("StoreVar")
    /\ Executed
    /\ UNCHANGED <<variable_types, output>>
    /\ IF stack = <<>>
       THEN Raise("Stack underflow") /\ UNCHANGED <<stack, variables>>
       ELSE LET value == Top(stack)
            IN  /\ stack' = Front(stack)
                /\ IF StoreVarMismatch(variable_types, cur.name, value)
                   THEN /\ Raise(TypeMismatch(ValueType(value), variable_types[cur.name]))
                        /\ UNCHANGED variables
                   ELSE /\ variables' = insert(variables, cur.name, value)
                        /\ Continue(ip)

\* mutant: an unbound name loads Null and execution goes on
StepLoadVar_NullWhenUnbound ==
    /\ Running("LoadVar")
    /\ Executed
    /\ UNCHANGED <<variables, variable_types, output>>
    /\ stack' = Append(stack, IF contains_key(variables, cur.name)
                              THEN variables[cur.name] ELSE NullV)
    /\ Continue(ip)

StepLoadVar ==
    /\ Running("LoadVar")
    /\ Executed
    /\ UNCHANGED <<variables, variable_types, output>>
    /\ IF contains_key(variables, cur.name)
       THEN stack' = Append(stack, variables[cur.name]) /\ Continue(ip)
       ELSE Raise("Undefined variable: " \o cur.name) /\ UNCHANGED stack

StepPush ==
    /\ Running("Push")
    /\ Executed
    /\ UNCHANGED <<variables, variable_types, output>>
    /\ stack' = Append(stack, cur.v)
    /\ Continue(ip)

StepPop ==
    /\ Running("Pop")
    /\ Executed
    /\ UNCHANGED <<variables, variable_types, output>>
    /\ stack' = (IF stack = <<>> THEN stack ELSE Front(stack))
    /\ Continue(ip)

StepDuplicate ==
    /\ Running("Duplicate")
    /\ Executed
    /\ UNCHANGED <<variables, variable_types, output>>
    /\ stack' = (IF stack = <<>> THEN stack ELSE Append(stack, Top(stack)))
    /\ Continue(ip)

\* Add, Subtract, Multiply, Divide: pop b, pop a, push binary_op(a, b, op)
ArithArm(o) ==
    /\ Executed
    /\ UNCHANGED <<variables, variable_types, output>>
    /\ IF Len(stack) < 2
       THEN Raise("Stack underflow") /\ stack' = <<>>
       ELSE LET b == Top(stack)
                a == Top(Front(stack))
                r == binary_op(a, b, o)
            IN  IF r = <<>>
                THEN /\ Raise("Invalid operands for arithmetic operation")
                     /\ stack' = Front(Front(stack))
                ELSE /\ stack' = Append(Front(Front(stack)), r[1])
                     /\ Continue(ip)

StepAdd ==
    /\ Running("Add")
    /\ ArithArm("Add")

StepSubtract ==
    /\ Running("Subtract")
    /\ ArithArm("Subtract")

StepMultiply ==
    /\ Running("Multiply")
    /\ ArithArm("Multiply")

StepDivide ==
    /\ Running("Divide")
    /\ ArithArm("Divide")

StepJump ==
    /\ Running("Jump")
    /\ Executed
    /\ UNCHANGED <<variables, variable_types, output, stack>>
    /\ Continue(JumpTarget(cur.n))

\* mutant: the condition value is popped
StepJumpIfFalse_Pops ==
    /\ Running("JumpIfFalse")
    /\ Executed
    /\ UNCHANGED <<variables, variable_types, output>>
    /\ stack' = (IF stack = <<>> THEN stack ELSE Front(stack))
    /\ IF stack # <<>> /\ Top(stack) = BooleanV(FALSE)
       THEN Continue(JumpTarget(cur.n))
       ELSE Continue(ip)

\* mutant: every value but true, and the empty stack, takes the branch
StepJumpIfFalse_UnlessTrue ==
    /\ Running("JumpIfFalse")
    /\ Executed
    /\ UNCHANGED <<variables, variable_types, output, stack>>
    /\ IF stack # <<>> /\ Top(stack) = BooleanV(TRUE)
       THEN Continue(ip)
       ELSE Continue(JumpTarget(cur.n))

StepJumpIfFalse ==
    /\ Running("JumpIfFalse")
    /\ Executed
    /\ UNCHANGED <<variables, variable_types, output, stack>>
    /\ IF stack # <<>> /\ Top(stack) = BooleanV(FALSE)
       THEN Continue(JumpTarget(cur.n))
       ELSE Continue(ip)

StepCall ==
    /\ Running("Call")
    /\ Executed
    /\ UNCHANGED <<variables, variable_types>>
    /\ LET args == CallArgs(stack, cur.n)
           rest == CallRest(stack, cur.n)
       IN  IF cur.name = "show"
           THEN /\ output' = (IF args # <<>> THEN Append(output, Display(args[1]))
                              ELSE output)
                /\ stack' = Append(rest, NullV)
                /\ Continue(ip)
           ELSE /\ Raise("Unknown function: " \o cur.name)
                /\ stack' = rest
                /\ UNCHANGED output

\* `break`, then Ok(())
StepReturn ==
    /\ Running("Return")
    /\ Executed
    /\ UNCHANGED <<variables, variable_types, output, stack, ip, error>>
    /\ status' = "ok"

\* mutant: the unimplemented opcode is skipped
StepNewObject_Skipped ==
    /\ Running("NewObject")
    /\ Executed
    /\ UNCHANGED <<variables, variable_types, output, stack>>
    /\ Continue(ip)

StepNewObject ==
    /\ Running("NewObject")
    /\ Executed
    /\ UNCHANGED <<variables, variable_types, output, stack>>
    /\ Raise("Object creation not implemented yet")

StepGetProperty ==
    /\ Running("GetProperty")
    /\ Executed
    /\ UNCHANGED <<variables, variable_types, output, stack>>
    /\ Raise("Property access not implemented yet")

StepSetProperty ==
    /\ Running("SetProperty")
    /\ Executed
    /\ UNCHANGED <<variables, variable_types, output, stack>>
    /\ Raise("Property setting not implemented yet")

StepCheckType ==
    /\ Running("CheckType")
    /\ Executed
    /\ UNCHANGED <<variables, output, stack>>
    /\ LET var_name == get_next_var_name(Upcoming(bytecode, ip))
       IN  variable_types' = (IF var_name # <<>>
                              THEN insert(variable_types, var_name[1], cur.name)
                              ELSE variable_types)
    /\ Continue(ip)

StepCast ==
    /\ Running("Cast")
    /\ Executed
    /\ UNCHANGED <<variables, variable_types, output>>
    /\ IF stack = <<>>
       THEN UNCHANGED stack /\ Continue(ip)
       ELSE LET new_value == CastValue(Top(stack), cur.name)
            IN  IF new_value = <<>>
                THEN /\ Raise("Cannot cast " \o DebugValue(Top(stack)) \o " to " \o cur.name)
                     /\ stack' = Front(stack)
                ELSE /\ stack' = Append(Front(stack), new_value[1])
                     /\ Continue(ip)

StepConcat ==
    /\ Running("Concat")
    /\ Executed
    /\ UNCHANGED <<variables, variable_types, output>>
    /\ IF Len(stack) < 2
       THEN Raise("Stack underflow") /\ stack' = <<>>
       ELSE LET r == concat_values(Top(Front(stack)), Top(stack))
            IN  IF r = <<>>
                THEN /\ Raise("Can only concatenate strings")
                     /\ stack' = Front(Front(stack))
                ELSE /\ stack' = Append(Front(Front(stack)), r[1])
                     /\ Continue(ip)

StepInterpolate ==
    /\ Running("Interpolate")
    /\ Executed
    /\ UNCHANGED <<variables, variable_types, output>>
    /\ LET r == InterpolateLoop(stack, cur.n, "")
       IN  stack' = Append(r.stack, StringV(r.result))
    /\ Continue(ip)

StepCheckAssignmentType ==
    /\ Running("CheckAssignmentType")
    /\ Executed
    /\ UNCHANGED <<variables, variable_types, output>>
    /\ IF stack = <<>>
       THEN Raise("Stack underflow") /\ UNCHANGED stack
       ELSE /\ stack' = Front(stack)
            /\ IF Front(stack) = <<>>
               THEN Raise("Stack underflow")
               ELSE LET new_value == Top(Front(stack))
                        var_name == get_next_var_name(Upcoming(bytecode, ip))
                    IN  IF /\ var_name # <<>>
                           /\ CheckAssignmentMismatch(variable_types, var_name[1], new_value)
                        THEN Raise(TypeMismatch(ValueType(new_value),
                                                variable_types[var_name[1]]))
                        ELSE Continue(ip)

\* OpCode::ConvertToString has no arm in execute_bytecode's match: any of
\* an error, no effect, or the coercion of the top of the stack
StepConvertToString ==
    /\ Running("ConvertToString")
    /\ Executed
    /\ UNCHANGED <<variables, variable_types, output>>
    /\ \/ Raise("Unhandled opcode: ConvertToString") /\ UNCHANGED stack
       \/ UNCHANGED stack /\ Continue(ip)
       \/ /\ stack # <<>>
          /\ stack' = Append(Front(stack), StringV(Display(Top(stack))))
          /\ Continue(ip)

\* OpCode::Show has no arm in execute_bytecode's match: any of an error,
\* no effect, or printing the popped top of the stack
StepShow ==
    /\ Running("Show")
    /\ Executed
    /\ UNCHANGED <<variables, variable_types>>
    /\ \/ Raise("Unhandled opcode: Show") /\ UNCHANGED <<stack, output>>
       \/ UNCHANGED <<stack, output>> /\ Continue(ip)
       \/ /\ stack # <<>>
          /\ stack' = Front(stack)
          /\ output' = Append(output, Display(Top(stack)))
          /\ Continue(ip)

Next ==
    \/ \E i \in 1..Len(Units) : RunUnit(i)
    \/ \E i \in 1..Len(Sources) : process_input(i)
    \/ \E i \in 1..Len(RawPrograms) : RunBytecode(i)
    \/ Finish
    \/ StepStoreVar
    \/ StepLoadVar
    \/ StepPush
    \/ StepPop
    \/ StepDuplicate
    \/ StepAdd
    \/ StepSubtract
    \/ StepMultiply
    \/ StepDivide
    \/ StepJump
    \/ StepJumpIfFalse
    \/ StepCall
    \/ StepReturn
    \/ StepNewObject
    \/ StepGetProperty
    \/ StepSetProperty
    \/ StepCheckType
    \/ StepCast
    \/ StepConcat
    \/ StepInterpolate
    \/ StepCheckAssignmentType
    \/ StepConvertToString
    \/ StepShow

Spec == Init /\ [][Next]_vars

\* one turn of execute_bytecode's `while ip < bytecode.len()` loop, or its end
execute_bytecode ==
    \/ Finish
    \/ StepStoreVar \/ StepLoadVar \/ StepPush \/ StepPop \/ StepDuplicate
    \/ StepAdd \/ StepSubtract \/ StepMultiply \/ StepDivide
    \/ StepJump \/ StepJumpIfFalse \/ StepCall \/ StepReturn
    \/ StepNewObject \/ StepGetProperty \/ StepSetProperty
    \/ StepCheckType \/ StepCast \/ StepConcat \/ StepInterpolate
    \/ StepCheckAssignmentType \/ StepConvertToString \/ StepShow

\* execute_bytecode is sequential code: once called, its loop keeps running
FairSpec == Spec /\ WF_vars(execute_bytecode)

TypeOK ==
    /\ status \in {"idle", "running", "ok", "err", "abort"}
    /\ ip \in Nat
    /\ steps \in 0..MaxSteps
    /\ units \in 0..MaxUnits

\* ------------------------------------------------- vocabulary of the claims
\* the instruction executed last by the current call
Ran == last.ip >= 0
LastOp == bytecode[last.ip + 1]
Executedset == {trace[p] : p \in DOMAIN trace}

\* the classification named by the specification, written from its text
Classification(v) ==
    IF v.tag = "Number" THEN (IF v.den = 1 THEN "Whole" ELSE "Decimal")
    ELSE IF v.tag = "String" THEN "Text"
    ELSE IF v.tag = "Boolean" THEN "Truth"
    ELSE IF v.tag = "Null" THEN "Void"
    ELSE v.s

\* where the generator puts the parts of the top-level conditional u[k]
WhenLayout(u, k) ==
    LET g0 == generate_nodes(NewGenerator, SubSeq(u, 1, k - 1))
        gc == generate_node(g0, u[k].condition)
        gt == generate_node(emit(gc, JumpIfFalse(0)), u[k].then_branch)
        ge == generate_node(emit(gt, Jump(0)), u[k].else_branch)
    IN  [cond_start |-> Len(g0.instructions),
         jump_if_false_pos |-> Len(gc.instructions),
         then_start |-> Len(gc.instructions) + 1,
         jump_pos |-> Len(gt.instructions),
         else_start |-> Len(gt.instructions) + 1,
         post |-> Len(ge.instructions)]

\* where the generator puts the parts of the top-level loop u[k]
LoopLayout(u, k) ==
    LET g0 == generate_nodes(NewGenerator, SubSeq(u, 1, k - 1))
        gc == generate_node(g0, u[k].condition)
        gb == generate_node(emit(gc, JumpIfFalse(0)), u[k].body)
    IN  [loop_start |-> Len(g0.instructions),
         jump_if_false_pos |-> Len(gc.instructions),
         body_start |-> Len(gc.instructions) + 1,
         jump_pos |-> Len(gb.instructions),
         post |-> Len(gb.instructions) + 1]

CurrentUnit == Units[input.idx]

\* ---------------------------------------------------------------------- C1
\* C1: for a conditional with both branches, a finished run executes all
\* instructions of exactly one branch and none of the other, and the
\* instruction executed after the taken branch is the one at the
\* post-conditional index.
C1_ExactlyOneBranchThenPost ==
    (input.kind = "unit" /\ status = "ok") =>
        \A k \in DOMAIN CurrentUnit :
            (CurrentUnit[k].kind = "WhenStmt" /\ CurrentUnit[k].else_branch.kind # "None") =>
                LET L == WhenLayout(CurrentUnit, k)
                    thenCode == L.then_start .. (L.jump_pos - 1)
                    elseCode == L.else_start .. (L.post - 1)
                IN  (L.jump_if_false_pos \in Executedset) =>
                      /\ \/ thenCode \subseteq Executedset /\ elseCode \cap Executedset = {}
                         \/ elseCode \subseteq Executedset /\ thenCode \cap Executedset = {}
                      /\ L.post < Len(bytecode) => L.post \in Executedset
                      /\ \A p \in DOMAIN trace :
                            trace[p] = L.jump_pos =>
                                IF p < Len(trace) THEN trace[p + 1] = L.post
                                ELSE L.post = Len(bytecode)

\* ---------------------------------------------------------------------- C2
\* C2: in a compiled while-loop every execution of the body is immediately
\* preceded by an execution of the complete condition code and its
\* JumpIfFalse, and a loop whose condition is the literal false never
\* executes its body.
C2_ConditionBeforeEveryBody ==
    input.kind = "unit" =>
        \A k \in DOMAIN CurrentUnit :
            CurrentUnit[k].kind = "LoopStmt" =>
                LET L == LoopLayout(CurrentUnit, k)
                    condLen == L.jump_if_false_pos - L.loop_start + 1
                IN  /\ \A p \in DOMAIN trace :
                          (trace[p] = L.body_start /\ L.body_start < L.jump_pos) =>
                              /\ p > condLen
                              /\ \A j \in 1..condLen :
                                    trace[p - j] = L.jump_if_false_pos - (j - 1)
                    /\ (/\ CurrentUnit[k].condition.kind = "Literal"
                        /\ CurrentUnit[k].condition.value = BooleanV(FALSE)) =>
                          (L.body_start .. (L.jump_pos - 1)) \cap Executedset = {}

\* ---------------------------------------------------------------------- C3
\* C3: after Jump(t), or JumpIfFalse(t) on a false top of stack, the next
\* instruction to execute is the one at index t.
C3_JumpIsAbsolute ==
    (Ran /\ status \in {"running", "ok"}) =>
        /\ LastOp.op = "Jump" => ip = LastOp.n
        /\ (/\ LastOp.op = "JumpIfFalse"
            /\ last.stack # <<>>
            /\ Top(last.stack) = BooleanV(FALSE)) => ip = LastOp.n

\* ---------------------------------------------------------------------- C4
\* the name the instruction at index i stores to or checks for
TargetName(i) ==
    IF bytecode[i + 1].op = "StoreVar" THEN <<bytecode[i + 1].name>>
    ELSE get_next_var_name(Upcoming(bytecode, i))

\* the value the instruction at last.ip is about to assign
NewValue ==
    IF LastOp.op = "StoreVar" THEN Top(last.stack)
    ELSE last.stack[Len(last.stack) - 1]

\* the last instruction is the StoreVar, or the CheckAssignmentType, of an
\* assignment to a bound name with a recorded declared type
AssigningToTyped ==
    /\ Ran
    /\ \/ LastOp.op = "StoreVar" /\ Len(last.stack) >= 1
       \/ LastOp.op = "CheckAssignmentType" /\ Len(last.stack) >= 2
    /\ TargetName(last.ip) # <<>>
    /\ TargetName(last.ip)[1] \in DOMAIN last.variable_types
    /\ TargetName(last.ip)[1] \in DOMAIN last.variables

\* C4: assigning to a typed, bound name a non-Null value of another
\* classification ends in a type-mismatch error and leaves every binding,
\* the one of that name included, as it was.
C4_ReassignmentRejectedBeforeStore ==
    (/\ AssigningToTyped
     /\ NewValue.tag # "Null"
     /\ Classification(NewValue) # last.variable_types[TargetName(last.ip)[1]]) =>
        /\ status = "err"
        /\ error = "Type mismatch: cannot assign " \o Classification(NewValue)
                     \o " to variable of type "
                     \o last.variable_types[TargetName(last.ip)[1]]
        /\ variables = last.variables
        /\ variable_types = last.variable_types

\* x is declared Text and holds "yo"; the checked assignment of 5 failed
C4_Witness ==
    /\ AssigningToTyped
    /\ LastOp.op = "CheckAssignmentType"
    /\ NewValue = Num(5)
    /\ status = "err"
    /\ variable_types = [nm \in {"x"} |-> "Text"]
    /\ variables = [nm \in {"x"} |-> StringV("yo")]

\* ---------------------------------------------------------------------- C5
\* C5: a StoreVar into a name declared Whole binds a Number without
\* fractional part and rejects a Number with one.
C5_WholeAcceptsIntegersOnly ==
    (/\ Ran
     /\ LastOp.op = "StoreVar"
     /\ last.stack # <<>>
     /\ LastOp.name \in DOMAIN last.variable_types
     /\ last.variable_types[LastOp.name] = "Whole"
     /\ Top(last.stack).tag = "Number") =>
        IF Top(last.stack).den = 1
        THEN /\ status # "err"
             /\ variables[LastOp.name] = Top(last.stack)
        ELSE /\ status = "err"
             /\ error = "Type mismatch: cannot assign Decimal to variable of type Whole"
             /\ variables = last.variables

\* x declared Whole was bound to 4, then the store of 0.5 was rejected
C5_Witness ==
    /\ Ran
    /\ LastOp.op = "StoreVar"
    /\ LastOp.name = "x"
    /\ last.stack # <<>>
    /\ Top(last.stack) = Half
    /\ status = "err"
    /\ variable_types = [nm \in {"x"} |-> "Whole"]
    /\ variables = [nm \in {"x"} |-> Num(4)]

\* ---------------------------------------------------------------------- C6
\* C6: a recorded declared type is never replaced or removed.
C6_DeclaredTypeFixed ==
    [][\A nm \in DOMAIN variable_types :
          /\ nm \in DOMAIN variable_types'
          /\ variable_types'[nm] = variable_types[nm]]_vars

\* ---------------------------------------------------------------------- C7
RECURSIVE ConcatAll(_)
\* the strings of a sequence of String values, first to last
ConcatAll(vals) == IF vals = <<>> THEN "" ELSE Head(vals).s \o ConcatAll(Tail(vals))

\* the top k values of stk, in push order
TopN(stk, k) == SubSeq(stk, Len(stk) - k + 1, Len(stk))

\* C7: Interpolate(N) on N Strings replaces exactly them by their
\* concatenation in push order.
C7_InterpolateKeepsOrder ==
    (/\ Ran
     /\ LastOp.op = "Interpolate"
     /\ Len(last.stack) >= LastOp.n
     /\ \A j \in DOMAIN TopN(last.stack, LastOp.n) :
            TopN(last.stack, LastOp.n)[j].tag = "String") =>
        /\ status # "err"
        /\ stack = Append(SubSeq(last.stack, 1, Len(last.stack) - LastOp.n),
                          StringV(ConcatAll(TopN(last.stack, LastOp.n))))

\* "a", "b", "c" above 9 became "abc" above 9
C7_Witness ==
    /\ Ran
    /\ LastOp = Interpolate(3)
    /\ last.stack = <<Num(9), StringV("a"), StringV("b"), StringV("c")>>
    /\ stack = <<Num(9), StringV("abc")>>

\* ---------------------------------------------------------------------- C8
IsInterpolationUnit(u) ==
    /\ Len(u) = 1
    /\ u[1].kind = "ShowStmt"
    /\ u[1].expr.kind = "StringInterpolation"
    /\ u[1].expr.parts =
           <<LitS("a"), Variable("x"), LitS("b"), Variable("y"), LitS("c")>>

\* C8: "a{x}b{y}c" with x = 1 and y = 2 runs without error and produces a1b2c.
C8_InterpolationEndToEnd ==
    (/\ input.kind = "unit"
     /\ IsInterpolationUnit(CurrentUnit)
     /\ "x" \in DOMAIN variables /\ variables["x"] = Num(1)
     /\ "y" \in DOMAIN variables /\ variables["y"] = Num(2)
     /\ status \in {"ok", "err"}) =>
        /\ status = "ok"
        /\ output = <<"a1b2c">>

\* ---------------------------------------------------------------------- C9
\* the number of values the instruction pops
Pops(instr) ==
    CASE instr.op \in {"Pop", "StoreVar", "Cast"} -> 1
      [] instr.op \in {"Add", "Subtract", "Multiply", "Divide", "Concat",
                       "CheckAssignmentType"} -> 2
      [] instr.op \in {"Call", "Interpolate"} -> instr.n
      [] OTHER -> 0

\* C9: an instruction that pops more values than the stack holds ends the
\* execution with an error.
C9_UnderflowIsError ==
    (Ran /\ Len(last.stack) < Pops(LastOp)) => status = "err"

\* --------------------------------------------------------------------- C10
\* C10: Call of a name other than show fails with an unknown-function error
\* and leaves the operand stack and the variable table as they were.
C10_UnknownCallKeepsStack ==
    (Ran /\ LastOp.op = "Call" /\ LastOp.name # "show") =>
        /\ status = "err"
        /\ error = "Unknown function: " \o LastOp.name
        /\ stack = last.stack
        /\ variables = last.variables

\* ---------------------------------------------------------------- C11
\* the call stopped with an error at the instruction executed last
StoppedAtLast == status = "err" /\ trace[Len(trace)] = last.ip

\* the instruction executed last changed neither table
TablesKept == variables = last.variables /\ variable_types = last.variable_types

\* C11: LoadVar of a name that has no binding fails with an error naming
\* that name: nothing is pushed, nothing is printed, no later instruction
\* runs, and the variable table and the declared types are unchanged.
C11_UnboundLoadFails ==
    (Ran /\ LastOp.op = "LoadVar" /\ LastOp.name \notin DOMAIN last.variables)
        => /\ StoppedAtLast
           /\ error = "Undefined variable: " \o LastOp.name
           /\ stack = last.stack
           /\ output = last.output
           /\ TablesKept

\* an unbound `show z` style load on a runtime that already holds x
C11_Witness ==
    /\ Ran /\ LastOp.op = "LoadVar" /\ LastOp.name \notin DOMAIN last.variables
    /\ DOMAIN variables # {}
    /\ status = "err"

\* ---------------------------------------------------------------- C12
\* the instruction executed last was a StoreVar with Null on top of the stack
StoredNull ==
    /\ Ran /\ LastOp.op = "StoreVar"
    /\ last.stack # <<>> /\ Top(last.stack) = NullV

\* C12: StoreVar with Null on top of the stack succeeds and binds the name
\* to Null whatever declared type is recorded for the name, so also in a
\* typed declaration without initializer (Push Null, CheckType(T), StoreVar).
C12_NullBypassesDeclaredType ==
    StoredNull
        => /\ status # "err"
           /\ LastOp.name \in DOMAIN variables
           /\ variables[LastOp.name] = NullV
           /\ variable_types = last.variable_types
           /\ stack = Front(last.stack)

\* `x as Whole` without initializer, run when x was declared Text before
C12_Witness ==
    /\ StoredNull
    /\ bytecode = <<Push(NullV), CheckType("Whole"), StoreVar("x")>>
    /\ variable_types = [nm \in {"x"} |-> "Whole"]
    /\ variables = [nm \in {"x"} |-> NullV]
    /\ units = 2

\* ---------------------------------------------------------------- C13
\* the indices of the StoreVar instructions after the one executed last
StoresAfterLast ==
    {j \in (last.ip + 1)..(Len(bytecode) - 1) : bytecode[j + 1].op = "StoreVar"}

\* the name stored by the nearest of them
NearestStoreName ==
    LET j == CHOOSE k \in StoresAfterLast : \A m \in StoresAfterLast : k <= m
    IN  bytecode[j + 1].name

\* C13: CheckType(T) records T as the declared type of the name of the
\* nearest StoreVar after it in the instruction sequence, when CheckType
\* runs and so before that store runs; it changes neither the stack nor any
\* variable's value, and it records nothing when no StoreVar follows.
C13_CheckTypeRecordsForNextStore ==
    (Ran /\ LastOp.op = "CheckType")
        => /\ status # "err"
           /\ stack = last.stack
           /\ variables = last.variables
           /\ output = last.output
           /\ IF StoresAfterLast = {}
              THEN variable_types = last.variable_types
              ELSE /\ DOMAIN variable_types =
                          DOMAIN last.variable_types \cup {NearestStoreName}
                   /\ variable_types[NearestStoreName] = LastOp.name
                   /\ \A nm \in DOMAIN last.variable_types \ {NearestStoreName} :
                          variable_types[nm] = last.variable_types[nm]

\* the type is recorded for y, two instructions ahead, and not for x
C13_Witness ==
    /\ Ran /\ LastOp.op = "CheckType"
    /\ bytecode = << Push(Num(1)), CheckType("Whole"), Push(Num(2)), StoreVar("y"),
                     StoreVar("x") >>
    /\ variable_types = [nm \in {"y"} |-> "Whole"]
    /\ variables = <<>>
    /\ stack = << Num(1) >>

\* ---------------------------------------------------------------- C14
\* the instruction executed last was a CheckAssignmentType that found the
\* variable's value and the new value on the stack and a StoreVar after it
CheckedAssignment ==
    /\ Ran /\ LastOp.op = "CheckAssignmentType"
    /\ Len(last.stack) >= 2
    /\ StoresAfterLast # {}

\* the new value of that assignment: the one under the variable's value
CheckedValue == last.stack[Len(last.stack) - 1]

\* the name has a recorded declared type and the new value classifies otherwise
CheckedDiffers ==
    /\ NearestStoreName \in DOMAIN last.variable_types
    /\ Classification(CheckedValue) # last.variable_types[NearestStoreName]

\* C14: CheckAssignmentType compares the classification of the new value
\* with the declared type of the next StoreVar's name: it fails with a
\* type-mismatch error exactly when that name has a recorded declared type
\* and the classification differs from it, and otherwise, so whenever the
\* name has no recorded declared type, it succeeds without a trace and
\* leaves the new value on top of the stack.
C14_CheckAssignmentCompares ==
    CheckedAssignment
        => /\ (status = "err") <=> CheckedDiffers
           /\ status = "err" =>
                  error = "Type mismatch: cannot assign "
                             \o Classification(CheckedValue)
                             \o " to variable of type "
                             \o last.variable_types[NearestStoreName]
           /\ status # "err" =>
                  /\ stack = Front(last.stack)
                  /\ Top(stack) = CheckedValue
                  /\ error = ""
           /\ output = last.output
           /\ TablesKept

\* an untyped x holding "yo" is checked against 5: no error, 5 left on top
C14_Witness ==
    /\ CheckedAssignment
    /\ NearestStoreName \notin DOMAIN last.variable_types
    /\ NearestStoreName \in DOMAIN last.variables
    /\ CheckedValue = Num(5)
    /\ stack = << Num(5) >>
    /\ status = "running"

\* ---------------------------------------------------------------- C15
\* the instruction executed last was a JumpIfFalse that did not find the
\* Boolean false on top of the stack
JumpIfFalseNotOnFalse ==
    /\ Ran /\ LastOp.op = "JumpIfFalse"
    /\ (last.stack = <<>> \/ Top(last.stack) # BooleanV(FALSE))

\* C15: JumpIfFalse branches only on the Boolean false: on true, a Number,
\* a String, Null, an Object or an empty stack it does not branch and
\* raises no error, and execution goes on with the next instruction.
C15_BranchOnlyOnFalse ==
    JumpIfFalseNotOnFalse
        => /\ status # "err"
           /\ error = ""
           /\ ip = last.ip + 1
           /\ stack = last.stack
           /\ output = last.output
           /\ TablesKept

\* Null on top: the Push after the JumpIfFalse, which a branch skips, ran
C15_Witness ==
    /\ bytecode = << Push(NullV), JumpIfFalse(3), Push(Num(1)), Return, Push(Num(2)) >>
    /\ trace = << 0, 1, 2 >>
    /\ stack = << NullV, Num(1) >>

\* ---------------------------------------------------------------- C17
\* the message each unimplemented opcode is specified to fail with
NotImplementedMessage(o) ==
    CASE o = "NewObject"   -> "Object creation not implemented yet"
      [] o = "GetProperty" -> "Property access not implemented yet"
      [] o = "SetProperty" -> "Property setting not implemented yet"

\* C17: NewObject, GetProperty and SetProperty always end the execution
\* with their not-implemented error: none of them is ever a no-op, no
\* later instruction runs, and the variable table and the declared types
\* are unchanged.
C17_ObjectOpcodesNotImplemented ==
    (Ran /\ LastOp.op \in {"NewObject", "GetProperty", "SetProperty"})
        => /\ StoppedAtLast
           /\ error = NotImplementedMessage(LastOp.op)
           /\ ip = last.ip
           /\ stack = last.stack
           /\ output = last.output
           /\ TablesKept

\* `new Person` with one argument: the argument was pushed, then the stop
C17_Witness ==
    /\ Ran /\ LastOp.op = "NewObject"
    /\ status = "err"
    /\ trace = << 0, 1 >>
    /\ ip < Len(bytecode) - 1

\* ---------------------------------------------------------------- C16
\* a step that starts the next unit of the session
StartsUnit == units' = units + 1

\* C16: a fresh Runtime holds no binding and no declared type; a unit
\* starts with the variable table and the declared types the previous unit
\* ended with, nothing being reset or dropped at the boundary; and a
\* binding or declared type, once made, is never removed.
C16_SessionPersists ==
    /\ [](units = 0 => variables = <<>> /\ variable_types = <<>>)
    /\ [][/\ StartsUnit => /\ variables' = variables
                           /\ variable_types' = variable_types
          /\ DOMAIN variables \subseteq DOMAIN variables'
          /\ DOMAIN variable_types \subseteq DOMAIN variable_types']_vars

\* the second unit of a session is about to run on the tables left by the first
C16_Witness ==
    /\ units = 2
    /\ status = "running" /\ ~Ran
    /\ DOMAIN variables = {"x", "y"}
    /\ DOMAIN variable_types # {}

\* ---------------------------------------------------------------- C20
RECURSIVE ConditionalsLowered(_, _, _)
RECURSIVE ConditionalsLoweredIn(_, _, _)

\* every conditional among nodes, generated in turn from generator state g,
\* has its jumps in code as C20 says
ConditionalsLoweredIn(g, nodes, code) ==
    \/ nodes = <<>>
    \/ /\ ConditionalsLowered(g, Head(nodes), code)
       /\ ConditionalsLoweredIn(generate_node(g, Head(nodes)), Tail(nodes), code)

\* the same for the conditionals in node, itself included
ConditionalsLowered(g, node, code) ==
    CASE node.kind = "WhenStmt" ->
           LET at_condition == generate_node(g, node.condition)
               jump_if_false_at == Len(at_condition.instructions)
               into_then == emit(at_condition, JumpIfFalse(0))
               at_then == generate_node(into_then, node.then_branch)
               after_then == Len(at_then.instructions)
               into_else == emit(at_then, Jump(0))
           IN  /\ code[jump_if_false_at + 1].op = "JumpIfFalse"
               /\ ConditionalsLowered(g, node.condition, code)
               /\ ConditionalsLowered(into_then, node.then_branch, code)
               /\ IF node.else_branch.kind = "None"
                  THEN /\ code[jump_if_false_at + 1].n = after_then
                       /\ Len(generate_node(g, node).instructions) = after_then
                  ELSE /\ code[after_then + 1].op = "Jump"
                       /\ code[jump_if_false_at + 1].n = after_then + 1
                       /\ code[after_then + 1].n =
                              Len(generate_node(into_else, node.else_branch).instructions)
                       /\ ConditionalsLowered(into_else, node.else_branch, code)
      [] node.kind = "LoopStmt" ->
           /\ ConditionalsLowered(g, node.condition, code)
           /\ ConditionalsLowered(emit(generate_node(g, node.condition), JumpIfFalse(0)),
                                  node.body, code)
      [] node.kind = "Block" -> ConditionalsLoweredIn(g, node.statements, code)
      [] OTHER -> TRUE

\* the current call runs the instructions generated from a unit
RunsGenerated == input.kind = "unit" /\ generate(CurrentUnit).ok

\* C20: in the code of a conditional with an else branch the JumpIfFalse
\* targets the first instruction of the else branch, just after the Jump,
\* and the Jump targets the index just after the last instruction of the
\* else branch; without else branch no Jump is emitted and the JumpIfFalse
\* targets the index just after the last instruction of the then branch.
\* No placeholder target survives, in nested conditionals and loops too.
C20_ConditionalJumpsPatched ==
    RunsGenerated => ConditionalsLoweredIn(NewGenerator, CurrentUnit, bytecode)

\* the unit whose then branch holds a conditional with an else branch
C20_Witness ==
    /\ RunsGenerated
    /\ Len(bytecode) = 14
    /\ bytecode[2] = JumpIfFalse(10)
    /\ bytecode[4] = JumpIfFalse(7)
    /\ bytecode[7] = Jump(9)
    /\ bytecode[10] = Jump(12)

\* ---------------------------------------------------------------- C18
\* the source text of the current call to process_input
CurrentSource == Sources[input.idx]

DeclareLine ==
    << Word("x"), Word("as"), Word("Whole"), Word("is"), Numeral(Num(2)), Char("+"),
       Numeral(Num(3)) >>
ShowLine == << Word("show"), Word("x") >>
DeclareAndShow == DeclareLine \o << Char("\n") >> \o ShowLine \o << Char("\n") >>

\* x is bound to 5 with the declared type Whole, and nothing else is bound
FiveDeclaredWhole ==
    /\ variables = [nm \in {"x"} |-> Num(5)]
    /\ variable_types = [nm \in {"x"} |-> "Whole"]

\* C18: on a fresh Runtime the source `x as Whole is 2 + 3` followed by
\* `show x` is accepted by the parser, the compiler and the VM: it binds x
\* to 5 with the declared type Whole and prints 5. The two lines are given
\* as one text, or line by line.
C18_DeclareAndShowRoundTrip ==
    /\ (input.kind = "source" /\ units = 1
            /\ CurrentSource \in {DeclareLine, DeclareAndShow})
          => /\ status \notin {"err", "abort"}
             /\ status = "ok" => FiveDeclaredWhole
             /\ (status = "ok" /\ CurrentSource = DeclareAndShow) => output = << "5" >>
    /\ (input.kind = "source" /\ CurrentSource = ShowLine /\ FiveDeclaredWhole)
          => /\ status \notin {"err", "abort"}
             /\ status = "ok" => output = << "5" >>

\* ---------------------------------------------------------------- C19
\* process_input has returned or is about to execute its first instruction
Entered == input.kind = "source" /\ ~Ran

\* the parser accepted the current source and the analyzer, seeded from
\* the tables the call found, reported an error on what it parsed
AnalyzerRejected ==
    /\ Entered
    /\ parse(tokenize(CurrentSource)).ok
    /\ ~analyze(SeedAnalyzer(variables, variable_types),
                parse(tokenize(CurrentSource)).node).ok

\* C19: the analyzer is advisory: a unit it rejects is compiled and
\* executed as if the analyzer had not run, so the call holds the
\* instructions the compiler makes of the unit and has the compiler's
\* result, not the analyzer's.
C19_AnalyzerIsAdvisory ==
    AnalyzerRejected
        => LET g == generate(parse(tokenize(CurrentSource)).node)
           IN  /\ bytecode = (IF g.ok THEN g.instructions ELSE <<>>)
               /\ g.ok => status # "err"
               /\ ~g.ok => (status = "err" /\ error = g.err)

\* ---------------------------------------------------------------- C21
RECURSIVE LoopsLowered(_, _, _)
RECURSIVE LoopsLoweredIn(_, _, _)

\* every loop among nodes, generated in turn from generator state g, lies
\* in code as C21 says
LoopsLoweredIn(g, nodes, code) ==
    \/ nodes = <<>>
    \/ /\ LoopsLowered(g, Head(nodes), code)
       /\ LoopsLoweredIn(generate_node(g, Head(nodes)), Tail(nodes), code)

\* the same for the loops in node, itself included
LoopsLowered(g, node, code) ==
    CASE node.kind = "LoopStmt" ->
           LET first_condition == Len(g.instructions)
               at_condition == generate_node(g, node.condition)
               exit_jump_at == Len(at_condition.instructions)
               into_body == emit(at_condition, JumpIfFalse(0))
               back_jump_at == Len(generate_node(into_body, node.body).instructions)
           IN  /\ first_condition < exit_jump_at
               /\ SubSeq(code, first_condition + 1, exit_jump_at)
                      = SubSeq(at_condition.instructions, first_condition + 1, exit_jump_at)
               /\ code[exit_jump_at + 1] = JumpIfFalse(back_jump_at + 1)
               /\ code[back_jump_at + 1] = Jump(first_condition)
               /\ Len(generate_node(g, node).instructions) = back_jump_at + 1
               /\ LoopsLowered(g, node.condition, code)
               /\ LoopsLowered(into_body, node.body, code)
      [] node.kind = "WhenStmt" ->
           LET into_then == emit(generate_node(g, node.condition), JumpIfFalse(0))
               into_else == emit(generate_node(into_then, node.then_branch), Jump(0))
           IN  /\ LoopsLowered(g, node.condition, code)
               /\ LoopsLowered(into_then, node.then_branch, code)
               /\ node.else_branch.kind # "None"
                      => LoopsLowered(into_else, node.else_branch, code)
      [] node.kind = "Block" -> LoopsLoweredIn(g, node.statements, code)
      [] OTHER -> TRUE

\* C21: the code of a loop is the condition code from index loop_start,
\* a JumpIfFalse, the body, and a Jump; the Jump targets loop_start, the
\* index of the first condition instruction, and the JumpIfFalse targets the
\* index just after the Jump. This holds for a loop nested in a loop or a
\* branch and for a loop that follows other code.
C21_LoopJumpsPatched ==
    RunsGenerated => LoopsLoweredIn(NewGenerator, CurrentUnit, bytecode)

\* the unit whose loop body holds a loop and that starts with a declaration
C21_Witness ==
    /\ RunsGenerated
    /\ Len(bytecode) = 12
    /\ bytecode[4] = JumpIfFalse(12)
    /\ bytecode[6] = JumpIfFalse(9)
    /\ bytecode[9] = Jump(4)
    /\ bytecode[12] = Jump(2)

\* ---------------------------------------------------------------- C22
RECURSIVE DeclarationsLowered(_, _, _)
RECURSIVE DeclarationsLoweredIn(_, _, _)

\* every declaration among nodes, generated in turn from generator state g,
\* lies in code as C22 says
DeclarationsLoweredIn(g, nodes, code) ==
    \/ nodes = <<>>
    \/ /\ DeclarationsLowered(g, Head(nodes), code)
       /\ DeclarationsLoweredIn(generate_node(g, Head(nodes)), Tail(nodes), code)

\* the same for the declarations in node, itself included
DeclarationsLowered(g, node, code) ==
    CASE node.kind = "VariableDecl" ->
           LET first == Len(g.instructions)
               value_code == IF node.initializer.kind = "None" THEN << Push(NullV) >>
                             ELSE SubSeq(generate_node(g, node.initializer).instructions,
                                         first + 1,
                                         Len(generate_node(g, node.initializer).instructions))
               after_value == first + Len(value_code)
               whole == Len(generate_node(g, node).instructions)
           IN  /\ SubSeq(code, first + 1, after_value) = value_code
               /\ node.type_annotation.kind = "TypeAnnotation"
                      => /\ code[after_value + 1] = CheckType(node.type_annotation.name)
                         /\ code[after_value + 2] = StoreVar(node.name)
                         /\ whole = after_value + 2
               /\ node.type_annotation.kind = "None"
                      => /\ code[after_value + 1] = StoreVar(node.name)
                         /\ whole = after_value + 1
      [] node.kind = "WhenStmt" ->
           LET into_then == emit(generate_node(g, node.condition), JumpIfFalse(0))
               into_else == emit(generate_node(into_then, node.then_branch), Jump(0))
           IN  /\ DeclarationsLowered(into_then, node.then_branch, code)
               /\ node.else_branch.kind # "None"
                      => DeclarationsLowered(into_else, node.else_branch, code)
      [] node.kind = "LoopStmt" ->
           DeclarationsLowered(emit(generate_node(g, node.condition), JumpIfFalse(0)),
                               node.body, code)
      [] node.kind = "Block" -> DeclarationsLoweredIn(g, node.statements, code)
      [] OTHER -> TRUE

\* a step of a generated unit that changes the declared types
RecordsType == input.kind = "unit" /\ units' = units /\ variable_types' # variable_types

RECURSIVE AssignedNames(_)
RECURSIVE AssignedNamesIn(_)

\* the names of the assignment nodes among nodes, and in node
AssignedNamesIn(nodes) ==
    IF nodes = <<>> THEN {} ELSE AssignedNames(Head(nodes)) \cup AssignedNamesIn(Tail(nodes))

AssignedNames(node) ==
    CASE node.kind = "Assignment" -> {node.name} \cup AssignedNames(node.value)
      [] node.kind = "VariableDecl" -> AssignedNames(node.initializer)
      [] node.kind = "Binary" -> AssignedNames(node.left) \cup AssignedNames(node.right)
      [] node.kind \in {"Call", "New"} -> AssignedNamesIn(node.args)
      [] node.kind = "ShowStmt" -> AssignedNames(node.expr)
      [] node.kind = "Block" -> AssignedNamesIn(node.statements)
      [] node.kind = "WhenStmt" ->
           AssignedNames(node.condition) \cup AssignedNames(node.then_branch)
               \cup AssignedNames(node.else_branch)
      [] node.kind = "LoopStmt" -> AssignedNames(node.condition) \cup AssignedNames(node.body)
      [] node.kind = "Get" -> AssignedNames(node.object)
      [] node.kind = "StringInterpolation" -> AssignedNamesIn(node.parts)
      [] OTHER -> {}

RECURSIVE AssignmentsLowered(_, _, _, _)
RECURSIVE AssignmentsLoweredIn(_, _, _, _)

\* every assignment among nodes, generated in turn from generator state g
\* after assignments to the names in earlier, lies in code as C23 says
AssignmentsLoweredIn(g, earlier, nodes, code) ==
    \/ nodes = <<>>
    \/ /\ AssignmentsLowered(g, earlier, Head(nodes), code)
       /\ AssignmentsLoweredIn(generate_node(g, Head(nodes)),
                               earlier \cup AssignedNames(Head(nodes)), Tail(nodes), code)

\* the same for the assignments that are statements of node, itself included
AssignmentsLowered(g, earlier, node, code) ==
    CASE node.kind = "Assignment" ->
           LET first == Len(g.instructions)
               at_value == generate_node(g, node.value).instructions
               after_value == Len(at_value)
               whole == Len(generate_node(g, node).instructions)
           IN  /\ SubSeq(code, first + 1, after_value) = SubSeq(at_value, first + 1, after_value)
               /\ IF node.name \in earlier \cup AssignedNames(node.value)
                  THEN /\ code[after_value + 1] = LoadVar(node.name)
                       /\ code[after_value + 2] = CheckAssignmentType
                       /\ code[after_value + 3] = StoreVar(node.name)
                       /\ whole = after_value + 3
                  ELSE /\ code[after_value + 1] = StoreVar(node.name)
                       /\ whole = after_value + 1
      [] node.kind = "WhenStmt" ->
           LET into_then == emit(generate_node(g, node.condition), JumpIfFalse(0))
               into_else == emit(generate_node(into_then, node.then_branch), Jump(0))
               at_then == earlier \cup AssignedNames(node.condition)
           IN  /\ AssignmentsLowered(into_then, at_then, node.then_branch, code)
               /\ node.else_branch.kind # "None"
                      => AssignmentsLowered(into_else,
                                            at_then \cup AssignedNames(node.then_branch),
                                            node.else_branch, code)
      [] node.kind = "LoopStmt" ->
           AssignmentsLowered(emit(generate_node(g, node.condition), JumpIfFalse(0)),
                              earlier \cup AssignedNames(node.condition), node.body, code)
      [] node.kind = "Block" -> AssignmentsLoweredIn(g, earlier, node.statements, code)
      [] OTHER -> TRUE

\* C23: the code of an assignment is the value code, then LoadVar(name)
\* and CheckAssignmentType exactly when an assignment node to the same name
\* was compiled earlier in the unit, then StoreVar(name). Every unit is
\* compiled by a generator of its own, so the first assignment to a name in
\* a unit carries no check and every later one does.
C23_AssignmentLowering ==
    RunsGenerated => AssignmentsLoweredIn(NewGenerator, {}, CurrentUnit, bytecode)

\* a declaration of x, a first assignment to x and to y, a second one to x
C23_Witness ==
    /\ RunsGenerated
    /\ bytecode = << Push(Num(1)), StoreVar("x"), Push(Num(2)), StoreVar("x"),
                     Push(Num(3)), StoreVar("y"),
                     Push(StringV("a")), LoadVar("x"), CheckAssignmentType, StoreVar("x") >>
    /\ units = 2

\* ---------------------------------------------------------------- C24
RECURSIVE Rejected(_)
RECURSIVE RejectedIn(_)

\* compiling nodes, or node, reaches a node of a kind the compiler does not
\* support
RejectedIn(nodes) == \E k \in DOMAIN nodes : Rejected(nodes[k])

Rejected(node) ==
    CASE node.kind \in {"Literal", "Variable"} -> FALSE
      [] node.kind = "VariableDecl" ->
           node.initializer.kind # "None" /\ Rejected(node.initializer)
      [] node.kind = "Assignment" -> Rejected(node.value)
      [] node.kind = "Binary" ->
           \/ Rejected(node.left)
           \/ Rejected(node.right)
           \/ node.operator \notin {"Plus", "Minus", "Multiply", "Divide"}
      [] node.kind = "Call" -> RejectedIn(node.args) \/ node.callee.kind # "Variable"
      [] node.kind = "New" -> RejectedIn(node.args)
      [] node.kind = "ShowStmt" -> Rejected(node.expr)
      [] node.kind = "Block" -> RejectedIn(node.statements)
      [] node.kind = "WhenStmt" ->
           \/ Rejected(node.condition)
           \/ Rejected(node.then_branch)
           \/ node.else_branch.kind # "None" /\ Rejected(node.else_branch)
      [] node.kind = "LoopStmt" -> Rejected(node.condition) \/ Rejected(node.body)
      [] node.kind = "Get" -> Rejected(node.object)
      [] node.kind = "StringInterpolation" -> RejectedIn(node.parts)
      [] OTHER -> TRUE

\* the units in which the first unsupported node reached is an await
AwaitUnits ==
    { << VariableDecl("x", NoneNode, AwaitExpr(LitN(1))) >>,
      << VariableDecl("x", NoneNode, LitN(1)), ShowStmt(AwaitExpr(Variable("x"))) >> }

\* the current call was given a unit that the compiler rejects
RejectedUnit == input.kind = "unit" /\ RejectedIn(CurrentUnit)

\* C24: a unit in which compilation reaches an unsupported node ends with
\* an error and without any instruction: none is executed, and the step
\* that takes the unit leaves the variables and the declared types as they
\* were. For an await the error is the explicit unsupported-node error.
C24_CompilationAllOrNothing ==
    /\ [](RejectedUnit => /\ status = "err"
                          /\ error # ""
                          /\ bytecode = <<>>
                          /\ ~Ran /\ trace = <<>> /\ stack = <<>> /\ output = <<>>)
    /\ [](RejectedUnit /\ CurrentUnit \in AwaitUnits
             => error = "Unsupported node type: AwaitExpr")
    /\ [][(units' = units + 1 /\ input'.kind = "unit" /\ RejectedIn(Units[input'.idx]))
             => /\ variables' = variables
                /\ variable_types' = variable_types]_vars

\* the second unit of a session is rejected for the await after its first
\* statement, the variables of the first unit being kept
C24_Witness ==
    /\ RejectedUnit
    /\ Len(CurrentUnit) = 2
    /\ CurrentUnit \in AwaitUnits
    /\ units = 2
    /\ DOMAIN variables # {}

\* ---------------------------------------------------------------- C25
\* the current source is one statement that begins with an identifier
BeginsWithIdentifier ==
    /\ Entered
    /\ Len(CurrentSource) \in {3, 5}
    /\ CurrentSource[1] \in {Word("x"), Word("y"), Word("m")}

\* the expression written by a literal lexeme
LiteralOf(lexeme) ==
    IF lexeme.kind = "string" THEN Literal(StringV(lexeme.text)) ELSE Literal(lexeme.v)

IsLiteralLexeme(lexeme) == lexeme.kind \in {"string", "number"}

IsTypeName(lexeme) == lexeme \in {Word("Text"), Word("Truth"), Word("Void")}

\* C25: of a statement that begins with an identifier, the parser makes
\* for `name as T is expr` a declaration with the annotation T and the
\* initializer, for `name as T` a declaration with the annotation T and no
\* initializer, for `name is expr` a declaration without annotation, and a
\* syntax error for any other continuation.
C25_DeclarationShape ==
    BeginsWithIdentifier =>
        LET src == CurrentSource
            parsed == parse(tokenize(src))
            name == src[1].text
        IN  CASE Len(src) = 5 /\ src[2] = Word("as") /\ IsTypeName(src[3])
                     /\ src[4] = Word("is") /\ IsLiteralLexeme(src[5]) ->
                   /\ parsed.ok
                   /\ parsed.node = << VariableDecl(name, TypeAnnotation(src[3].text),
                                                    LiteralOf(src[5])) >>
              [] Len(src) = 3 /\ src[2] = Word("as") /\ IsTypeName(src[3]) ->
                   /\ parsed.ok
                   /\ parsed.node = << VariableDecl(name, TypeAnnotation(src[3].text),
                                                    NoneNode) >>
              [] Len(src) = 3 /\ src[2] = Word("is") /\ IsLiteralLexeme(src[3]) ->
                   /\ parsed.ok
                   /\ parsed.node = << VariableDecl(name, NoneNode, LiteralOf(src[3])) >>
              [] src[2] \notin {Word("as"), Word("is")} -> ~parsed.ok
              [] OTHER -> TRUE

\* ---------------------------------------------------------------- C26
\* C26: on every source text the parser returns, with the statements or
\* with a syntax error, an initializer that starts with `await` included:
\* process_input is never ended by the parser's recursion running out of
\* stack.
C26_ParserTerminates ==
    input.kind = "source"
        => /\ status \in {"running", "ok", "err"}
           /\ error # StackOverflow

\* ---------------------------------------------------------------- C27
\* the names that have both a declared type and a value
TypedAndBound == DOMAIN variables \cap DOMAIN variable_types

\* C27: in every reachable state, every name that has a declared type and
\* a value holds Null or a value whose classification is its declared type.
C27_TypeConsistency ==
    \A nm \in TypedAndBound :
        \/ variables[nm] = NullV
        \/ Classification(variables[nm]) = variable_types[nm]

\* ---------------------------------------------------------------- C28
\* the current call has run [value, LoadVar x, CheckAssignmentType,
\* StoreVar x] to its end from tables in which x is bound; only the final
\* StoreVar changes a table, so the tables before the last instruction are
\* the ones the call started with
CheckedStoreDone ==
    /\ input.kind = "raw"
    /\ status \in {"ok", "err"}
    /\ Len(bytecode) = 4
    /\ bytecode[1].op = "Push"
    /\ bytecode[2] = LoadVar("x")
    /\ bytecode[3] = CheckAssignmentType
    /\ bytecode[4] = StoreVar("x")
    /\ Ran
    /\ "x" \in DOMAIN last.variables

\* C28: the sequence with the LoadVar/CheckAssignmentType pair ends as
\* [value, StoreVar x] ends from the same tables: with a type mismatch when
\* the plain store fails its declared-type check, and with x bound to the
\* value otherwise, Null included.
C28_CheckedStoreAsPlainStore ==
    CheckedStoreDone =>
        LET value == bytecode[1].v
        IN  IF StoreVarMismatch(last.variable_types, "x", value)
            THEN /\ status = "err"
                 /\ error = TypeMismatch(Classification(value), last.variable_types["x"])
                 /\ variables = last.variables
            ELSE /\ status = "ok"
                 /\ variables = insert(last.variables, "x", value)

\* ---------------------------------------------------------------- C29
\* the instruction executed last is the LoadVar the compiler put in front
\* of a CheckAssignmentType
CheckLoadExecuted ==
    /\ RunsGenerated
    /\ Ran
    /\ LastOp.op = "LoadVar"
    /\ last.ip + 2 <= Len(bytecode)
    /\ bytecode[last.ip + 2] = CheckAssignmentType

\* C29: when the LoadVar emitted ahead of a CheckAssignmentType is
\* executed its name is bound, so it does not fail with an
\* undefined-variable error, also when the earlier assignment to the name
\* lies in a branch or loop body that was not executed.
C29_CheckLoadFindsVariable ==
    CheckLoadExecuted
        => /\ LastOp.name \in DOMAIN last.variables
           /\ status # "err"

\* ---------------------------------------------------------------- C30
\* the instruction executed last is a JumpIfFalse
JumpIfFalseExecuted == Ran /\ LastOp.op = "JumpIfFalse"

\* the JumpIfFalse executed last took its branch
Branched == ip # last.ip + 1

\* the JumpIfFalse executed last came right after the Push that is the
\* whole condition code of a generated conditional or loop
AfterLiteralCondition ==
    /\ RunsGenerated
    /\ JumpIfFalseExecuted
    /\ Len(trace) >= 2
    /\ trace[Len(trace) - 1] = last.ip - 1
    /\ bytecode[last.ip].op = "Push"

\* C30: JumpIfFalse leaves the operand stack as it found it, whether it
\* branches or not, so the condition value it looked at is still on top
\* afterwards: the evaluation of a condition leaves the stack one value
\* higher, with the condition value on top.
C30_JumpIfFalseKeepsStack ==
    /\ JumpIfFalseExecuted => stack = last.stack /\ status # "err"
    /\ AfterLiteralCondition
          => /\ stack # <<>>
             /\ Top(stack) = bytecode[last.ip].v
             /\ Branched <=> Top(stack) = BooleanV(FALSE)

\* the JumpIfFalse of a generated loop has branched on false, which is
\* still on the stack
C30_Witness ==
    /\ AfterLiteralCondition
    /\ Branched
    /\ CurrentUnit[1].kind = "LoopStmt"
    /\ stack = << BooleanV(FALSE) >>

\* ---------------------------------------------------------------- C31
\* no Jump or JumpIfFalse of code targets its own index or an earlier one
NoBackwardJump(code) ==
    \A k \in DOMAIN code :
        code[k].op \in {"Jump", "JumpIfFalse"} => code[k].n > k - 1

\* the current call executes a sequence without backward jump
ForwardOnly == status \in {"running", "ok", "err"} /\ NoBackwardJump(bytecode)

=============================================================================
